---------------------------- MODULE Spec2Model ----------------------------
(***************************************************************************)
(* A model of vrdx's in-memory document model (vrdx/app/state.py) and its  *)
(* mutation commands (vrdx/app/commands.py).                               *)
(*                                                                         *)
(* Text is a sequence of tokens: a token is one whitespace character or a  *)
(* run of non-whitespace characters.  Python lists are sequences; Python   *)
(* indices are 0-based and are shifted by one where a sequence is read.    *)
(* A command is an operator from an AppState value and its arguments to a  *)
(* Result: the AppState it leaves, the exception it raised ("ok" if none)  *)
(* and the value it returned.                                              *)
(***************************************************************************)
EXTENDS Integers, Sequences, FiniteSets, TLC

\* Bounds of the model: the decisions the aggregate holds over all its files,
\* the largest id create may hand out, and the links a file holds before a
\* further link is made.
MaxDecisions == 2
MaxId == 1
MaxLinks == 1

VARIABLES
    app_state,  \* the AppState aggregate
    body,       \* the text of a decision block body, as typed so far
    document    \* the text of the markdown file on disk

vars == <<app_state, body, document>>

text_vars == <<body, document>>

---------------------------------------------------------------------------
\* Python values and built-ins

\* Optional[T]: None is the empty tuple, a value x is the one-element tuple
None == <<>>

Some(x) == <<x>>

IsNone(o) == Len(o) = 0

Value(o) == o[1]

NL == "\n"

Whitespace == {" ", NL}

RECURSIVE lstrip(_)
lstrip(s) ==
    IF s # <<>> /\ Head(s) \in Whitespace THEN lstrip(Tail(s)) ELSE s

RECURSIVE rstrip(_)
rstrip(s) ==
    IF s # <<>> /\ s[Len(s)] \in Whitespace
    THEN rstrip(SubSeq(s, 1, Len(s) - 1))
    ELSE s

strip(s) == rstrip(lstrip(s))

DigitChars == <<"0", "1", "2", "3", "4", "5", "6", "7", "8", "9">>

RECURSIVE str_int(_)
str_int(n) ==
    IF n < 10
    THEN <<DigitChars[n + 1]>>
    ELSE str_int(n \div 10) \o <<DigitChars[(n % 10) + 1]>>

\* list.pop(index) for 0 <= index < len: the list without that element
list_pop(s, index) ==
    SubSeq(s, 1, index) \o SubSeq(s, index + 2, Len(s))

\* a list.insert that puts x behind the element at index
list_insert_after(s, index, x) ==
    LET i == IF index + 1 > Len(s) THEN Len(s) ELSE index + 1
    IN  SubSeq(s, 1, i) \o <<x>> \o SubSeq(s, i + 1, Len(s))

\* list.insert(index, x) for index >= 0: an index past the end appends
list_insert(s, index, x) ==
    LET i == IF index > Len(s) THEN Len(s) ELSE index
    IN  SubSeq(s, 1, i) \o <<x>> \o SubSeq(s, i + 1, Len(s))

max(a, b) == IF a >= b THEN a ELSE b

min(a, b) == IF a <= b THEN a ELSE b

SeqMax(S) == CHOOSE m \in S : \A x \in S : x <= m

---------------------------------------------------------------------------
\* vrdx/parser/template.py

DEFAULT_STATUS == <<"memo", " ", "Draft">>

STATUS_OPTIONS ==
    << <<"memo", " ", "Draft">>,
       <<"check", " ", "Accepted">>,
       <<"cross", " ", "Rejected">>,
       <<"stop", " ", "Deprecated", " ", "by", " ", "...">>,
       <<"up", " ", "Supersedes", " ", "...">> >>

is_status_supported(status) ==
    \E i \in 1..Len(STATUS_OPTIONS) : STATUS_OPTIONS[i] = status

\* a normalise_status that returns every status as it was given
normalise_status_as_given(status) == status

normalise_status(status) ==
    IF is_status_supported(status) THEN status ELSE DEFAULT_STATUS

---------------------------------------------------------------------------
\* vrdx/parser/decisions.py

\* DecisionRecord.render with the default newline
render(r) ==
    <<"###", " ">> \o str_int(r.id) \o <<" ">> \o r.title \o <<NL>>
    \o <<"*", " ", "**Status**:", " ">> \o r.status \o <<NL>>
    \o <<"*", " ", "**Decision**:", " ">> \o r.decision \o <<NL>>
    \o <<"*", " ", "**Context**:", " ">> \o r.context \o <<NL>>
    \o <<"*", " ", "**Consequences**:", " ">> \o r.consequences

\* DecisionRecord(...): the field validator trims the five text fields
DecisionRecord(id, title, status, decision, context, consequences, raw) ==
    [id |-> id,
     title |-> strip(title),
     status |-> strip(status),
     decision |-> strip(decision),
     context |-> strip(context),
     consequences |-> strip(consequences),
     raw |-> raw]

\* a next id taken from the number of records
find_next_decision_id_by_count(records) == Len(records)

find_next_decision_id(records) ==
    IF records = <<>>
    THEN 0
    ELSE SeqMax({records[i].id : i \in 1..Len(records)}) + 1

\* --- parse_decisions.  A text is a sequence of tokens; a word is a run of
\* adjacent tokens other than whitespace.  The tokens "###", "*", the four
\* field labels and the digits are what the patterns look for; every other
\* token is an ordinary character run.

DecisionParseError == "DecisionParseError"

IsDigit(token) == \E i \in 1..Len(DigitChars) : DigitChars[i] = token

digit_value(token) == (CHOOSE i \in 1..Len(DigitChars) : DigitChars[i] = token) - 1

\* int(digits)
RECURSIVE int_str(_)
int_str(digits) ==
    IF Len(digits) = 1
    THEN digit_value(digits[1])
    ELSE 10 * int_str(SubSeq(digits, 1, Len(digits) - 1))
         + digit_value(digits[Len(digits)])

SetMin(S) == CHOOSE m \in S : \A x \in S : m <= x

\* the first index from i on whose token is not whitespace, Len + 1 if none
skip_whitespace(text, i) ==
    LET rest == {k \in i..Len(text) : text[k] \notin Whitespace}
    IN  IF rest = {} THEN Len(text) + 1 ELSE SetMin(rest)

\* the first index from i on whose token is not a digit, Len + 1 if none
skip_digits(text, i) ==
    LET rest == {k \in i..Len(text) : ~IsDigit(text[k])}
    IN  IF rest = {} THEN Len(text) + 1 ELSE SetMin(rest)

\* the last index of the line that holds index i
line_end(text, i) ==
    LET breaks == {k \in i..Len(text) : text[k] = NL}
    IN  IF breaks = {} THEN Len(text) ELSE SetMin(breaks) - 1

\* HEADING_PATTERN tried at index i: ^###\s+(\d+)\s+(.+)$.  Both \s+ may run
\* over line ends; the title needs one character that is not a line end: the
\* first word after the id, or for want of one a space given back by the
\* second \s+.  The result is the index of the last token matched, 0 when
\* the pattern does not match at i.
heading_match_end(text, i) ==
    IF i > Len(text) \/ text[i] # "###"
    THEN 0
    ELSE LET id_start == skip_whitespace(text, i + 1)
         IN  IF id_start = i + 1 \/ id_start > Len(text) \/ ~IsDigit(text[id_start])
             THEN 0
             ELSE LET id_end == skip_digits(text, id_start)
                      title_start == skip_whitespace(text, id_end)
                  IN  IF title_start = id_end
                      THEN 0
                      ELSE IF title_start <= Len(text)
                      THEN line_end(text, title_start)
                      ELSE IF \E p \in (id_end + 1)..Len(text) : text[p] = " "
                      THEN Len(text)
                      ELSE 0

\* the groups of HEADING_PATTERN.match(line) for a line it matches
heading_id(line) ==
    LET id_start == skip_whitespace(line, 2)
    IN  int_str(SubSeq(line, id_start, skip_digits(line, id_start) - 1))

heading_title(line) ==
    LET id_start == skip_whitespace(line, 2)
    IN  SubSeq(line, skip_whitespace(line, skip_digits(line, id_start)), Len(line))

\* HEADING_PATTERN.finditer(body) with re.MULTILINE: the indices where the
\* matches start, left to right, each search going on behind the last match.
\* ^ matches at the start of a line only, so the search goes from line start
\* to line start; i is the start of a line, and a match ends at the end of
\* one
RECURSIVE heading_starts(_, _)
heading_starts(text, i) ==
    IF i > Len(text)
    THEN <<>>
    ELSE CHOOSE starts \in
             {IF matched > 0
              THEN <<i>> \o heading_starts(text, matched + 2)
              ELSE heading_starts(text, next_line) :
                  matched \in {heading_match_end(text, i)},
                  next_line \in {line_end(text, i) + 2}} : TRUE

_iter_decision_sections(text) ==
    LET starts == heading_starts(text, 1)
    IN  [k \in 1..Len(starts) |->
            strip(SubSeq(text, starts[k],
                         IF k < Len(starts) THEN starts[k + 1] - 1 ELSE Len(text)))]

\* str.splitlines()
RECURSIVE splitlines(_)
splitlines(text) ==
    IF text = <<>>
    THEN <<>>
    ELSE LET first == line_end(text, 1)
         IN  <<SubSeq(text, 1, first)>>
             \o splitlines(SubSeq(text, first + 2, Len(text)))

CANONICAL_FIELDS == <<"Status", "Decision", "Context", "Consequences">>

\* the label of FIELD_PATTERN as it stands in a text
field_token(field) ==
    CASE field = "Status" -> "**Status**:"
      [] field = "Decision" -> "**Decision**:"
      [] field = "Context" -> "**Context**:"
      [] field = "Consequences" -> "**Consequences**:"

\* FIELD_PATTERN.match(line.strip()): ^\*\s+\*\*(label)\*\*:\s*(.*)$
field_match(line) ==
    LET stripped == strip(line)
        at == skip_whitespace(stripped, 2)
    IN  /\ Len(stripped) >= 3
        /\ stripped[1] = "*"
        /\ at > 2
        /\ at <= Len(stripped)
        /\ \E i \in 1..Len(CANONICAL_FIELDS) :
               stripped[at] = field_token(CANONICAL_FIELDS[i])

field_label(line) ==
    LET stripped == strip(line)
        at == skip_whitespace(stripped, 2)
    IN  CANONICAL_FIELDS[CHOOSE i \in 1..Len(CANONICAL_FIELDS) :
                             stripped[at] = field_token(CANONICAL_FIELDS[i])]

\* match.group("value").rstrip()
field_value(line) ==
    LET stripped == strip(line)
        at == skip_whitespace(stripped, 2)
    IN  rstrip(lstrip(SubSeq(stripped, at + 1, Len(stripped))))

\* "\n".join(part for part in buffer if part)
RECURSIVE join_parts(_)
join_parts(buffer) ==
    IF buffer = <<>>
    THEN <<>>
    ELSE IF Head(buffer) = <<>>
         THEN join_parts(Tail(buffer))
         ELSE LET rest == join_parts(Tail(buffer))
              IN  IF rest = <<>> THEN Head(buffer) ELSE Head(buffer) \o <<NL>> \o rest

\* the inner loop stops at the next field bullet or at a line that starts
\* with "### "
continuation_end(lines, idx) ==
    LET stops == {x \in idx..Len(lines) :
                     \/ field_match(lines[x])
                     \/ (Len(lines[x]) >= 2 /\ lines[x][1] = "###" /\ lines[x][2] = " ")}
    IN  IF stops = {} THEN Len(lines) + 1 ELSE SetMin(stops)

RECURSIVE extract_from(_, _, _)
extract_from(lines, idx, result) ==
    IF idx > Len(lines)
    THEN result
    ELSE IF ~field_match(lines[idx])
         THEN extract_from(lines, idx + 1, result)
         ELSE LET stop == continuation_end(lines, idx + 1)
                  buffer == <<field_value(lines[idx])>>
                            \o [x \in 1..(stop - idx - 1) |-> rstrip(lines[idx + x])]
              IN  extract_from(lines, stop,
                               [result EXCEPT ![field_label(lines[idx])] =
                                                  strip(join_parts(buffer))])

_extract_field_blocks(lines) ==
    extract_from(lines, 1,
                 [field \in {CANONICAL_FIELDS[i] : i \in 1..Len(CANONICAL_FIELDS)}
                      |-> <<>>])

\* one round of the loop of parse_decisions: the record of a section, or
\* the error it raises
parse_section(section) ==
    LET record_of(lines, field_map) ==
            IF heading_match_end(lines[1], 1) = 0
            THEN [err |-> DecisionParseError, record |-> None]
            ELSE IF \E i \in 1..Len(CANONICAL_FIELDS) :
                        field_map[CANONICAL_FIELDS[i]] = <<>>
            THEN [err |-> DecisionParseError, record |-> None]
            ELSE [err |-> "ok",
                  record |-> Some(DecisionRecord(heading_id(lines[1]),
                                                 strip(heading_title(lines[1])),
                                                 field_map["Status"],
                                                 field_map["Decision"],
                                                 field_map["Context"],
                                                 field_map["Consequences"],
                                                 section))]
    IN  CHOOSE result \in
            {record_of(lines, field_map) :
                 lines \in {splitlines(section)},
                 field_map \in {_extract_field_blocks(Tail(splitlines(section)))}} :
            TRUE

\* a list of the missing fields that stops at the first of them
missing_first(field_map) ==
    LET all == SelectSeq(CANONICAL_FIELDS, LAMBDA field : field_map[field] = <<>>)
    IN  IF all = <<>> THEN <<>> ELSE <<all[1]>>

\* missing = [field for field in CANONICAL_FIELDS if not field_map[field]]
missing(field_map) ==
    SelectSeq(CANONICAL_FIELDS, LAMBDA field : field_map[field] = <<>>)

\* what the error raised for a section says: that the heading is missing,
\* or the id, the title and the missing fields; None for a section that
\* raises nothing
section_error(section) ==
    LET message(lines, field_map) ==
            IF heading_match_end(lines[1], 1) = 0
            THEN Some([kind |-> "Missing decision heading", section |-> section])
            ELSE IF missing(field_map) # <<>>
            THEN Some([kind |-> "is missing fields",
                       id |-> heading_id(lines[1]),
                       title |-> strip(heading_title(lines[1])),
                       fields |-> missing(field_map)])
            ELSE None
    IN  CHOOSE result \in
            {message(lines, field_map) :
                 lines \in {splitlines(section)},
                 field_map \in {_extract_field_blocks(Tail(splitlines(section)))}} :
            TRUE

\* what the DecisionParseError raised by parse_decisions(body) says, None
\* when it raises none
parse_error(text) ==
    LET first_error(errors) ==
            IF \E k \in 1..Len(errors) : ~IsNone(errors[k])
            THEN errors[SetMin({k \in 1..Len(errors) : ~IsNone(errors[k])})]
            ELSE IF errors = <<>> /\ strip(text) # <<>>
            THEN Some([kind |-> "No valid decision entries"])
            ELSE None
    IN  CHOOSE result \in
            {first_error([k \in 1..Len(sections) |-> section_error(sections[k])]) :
                 sections \in {_iter_decision_sections(text)}} : TRUE

\* parse_decisions(body): the records in the order of the body, or the first
\* error raised
parse_decisions(text) ==
    LET collected(parsed) ==
            IF \E k \in 1..Len(parsed) : parsed[k].err # "ok"
            THEN [err |-> DecisionParseError, records |-> <<>>]
            ELSE IF parsed = <<>> /\ strip(text) # <<>>
            THEN [err |-> DecisionParseError, records |-> <<>>]
            ELSE [err |-> "ok",
                  records |-> [k \in 1..Len(parsed) |-> Value(parsed[k].record)]]
    IN  CHOOSE result \in
            {collected([k \in 1..Len(sections) |-> parse_section(sections[k])]) :
                 sections \in {_iter_decision_sections(text)}} : TRUE

\* render_decisions(decisions) with the default newline and separator
RECURSIVE render_decisions(_)
render_decisions(records) ==
    IF records = <<>>
    THEN <<>>
    ELSE IF Len(records) = 1
         THEN render(records[1])
         ELSE render(records[1]) \o <<NL, NL>> \o render_decisions(Tail(records))

---------------------------------------------------------------------------
\* vrdx/app/state.py

DecisionLink(source_id, target_id, relation) ==
    [source_id |-> source_id, target_id |-> target_id, relation |-> relation]

DecisionState(record) == [record |-> record, links |-> <<>>]

add_link(decision_state, relation, target_id) ==
    IF \E i \in 1..Len(decision_state.links) :
           /\ decision_state.links[i].relation = relation
           /\ decision_state.links[i].target_id = target_id
    THEN decision_state
    ELSE [decision_state EXCEPT
             !.links = Append(@, DecisionLink(decision_state.record.id,
                                              target_id, relation))]

\* a remove_link that filters nothing out
remove_link_keeping(decision_state, relation, target_id) == decision_state

remove_link(decision_state, relation, target_id) ==
    [decision_state EXCEPT
        !.links = SelectSeq(@, LAMBDA link :
                      ~(link.relation = relation /\ link.target_id = target_id))]

FileState(path, decisions) ==
    [path |-> path,
     decisions |-> decisions,
     marker_present |-> FALSE,
     inserted_marker |-> FALSE]

decision_records(file_state) ==
    [i \in 1..Len(file_state.decisions) |-> file_state.decisions[i].record]

next_decision_id(file_state) ==
    find_next_decision_id(decision_records(file_state))

\* a lookup that returns the last decision with the id
find_index_last(file_state, decision_id) ==
    LET hits == {i \in 1..Len(file_state.decisions) :
                     file_state.decisions[i].record.id = decision_id}
    IN  IF hits = {} THEN 0 ELSE CHOOSE i \in hits : \A j \in hits : i >= j

\* the position (1-based) of the first decision with the id, 0 when there is none
find_index(file_state, decision_id) ==
    LET hits == {i \in 1..Len(file_state.decisions) :
                     file_state.decisions[i].record.id = decision_id}
    IN  IF hits = {} THEN 0 ELSE CHOOSE i \in hits : \A j \in hits : i <= j

find_decision(file_state, decision_id) ==
    IF find_index(file_state, decision_id) = 0
    THEN None
    ELSE Some(file_state.decisions[find_index(file_state, decision_id)])

\* a parse_body that empties the list before it parses
parse_body_clearing(file_state, text) ==
    LET assigned(parsed) ==
            IF parsed.err # "ok"
            THEN [file |-> [file_state EXCEPT !.decisions = <<>>],
                  err |-> DecisionParseError]
            ELSE [file |-> [file_state EXCEPT
                               !.decisions = [k \in 1..Len(parsed.records) |->
                                                 DecisionState(parsed.records[k])]],
                  err |-> "ok"]
    IN  CHOOSE result \in {assigned(parsed) :
                               parsed \in {parse_decisions(text)}} : TRUE

\* FileState.parse_body(body): the FileState it leaves and the exception
\* raised ("ok" when none)
parse_body(file_state, text) ==
    LET assigned(parsed) ==
            IF parsed.err # "ok"
            THEN [file |-> file_state, err |-> DecisionParseError]
            ELSE [file |-> [file_state EXCEPT
                               !.decisions = [k \in 1..Len(parsed.records) |->
                                                 DecisionState(parsed.records[k])]],
                  err |-> "ok"]
    IN  CHOOSE result \in {assigned(parsed) :
                               parsed \in {parse_decisions(text)}} : TRUE

\* AppState(base_directory)
NewAppState ==
    [files |-> <<>>,
     selected_file_index |-> 0,
     selected_decision_index |-> 0,
     is_modified |-> FALSE]

current_file(a) ==
    IF 0 <= a.selected_file_index /\ a.selected_file_index < Len(a.files)
    THEN Some(a.files[a.selected_file_index + 1])
    ELSE None

current_decision(a) ==
    IF IsNone(current_file(a))
    THEN None
    ELSE IF /\ 0 <= a.selected_decision_index
            /\ a.selected_decision_index < Len(Value(current_file(a)).decisions)
         THEN Some(Value(current_file(a)).decisions[a.selected_decision_index + 1])
         ELSE None

mark_modified(a) == [a EXCEPT !.is_modified = TRUE]

mark_saved(a) == [a EXCEPT !.is_modified = FALSE]

\* the outcome of a call: the AppState it leaves, the exception raised ("ok"
\* when none) and the value returned
Result(a, err, ret) == [app |-> a, err |-> err, ret |-> ret]

Ok == "ok"

reset(a) ==
    Result([a EXCEPT !.files = <<>>,
                     !.selected_file_index = 0,
                     !.selected_decision_index = 0,
                     !.is_modified = FALSE], Ok, None)

set_files(a, files) ==
    Result([a EXCEPT !.files = files,
                     !.selected_file_index = IF files # <<>> THEN 0 ELSE -1,
                     !.selected_decision_index = 0,
                     !.is_modified = FALSE], Ok, None)

select_file(a, index) ==
    IF ~(0 <= index /\ index < Len(a.files))
    THEN Result(a, "IndexError: File index out of range", None)
    ELSE Result([a EXCEPT !.selected_file_index = index,
                          !.selected_decision_index = 0], Ok, None)

select_decision(a, index) ==
    IF IsNone(current_file(a))
    THEN Result(a, "IndexError: No file selected", None)
    ELSE IF ~(0 <= index /\ index < Len(Value(current_file(a)).decisions))
         THEN Result(a, "IndexError: Decision index out of range", None)
         ELSE Result([a EXCEPT !.selected_decision_index = index], Ok, None)

add_file(a, file_state) ==
    Result([a EXCEPT !.files = Append(@, file_state),
                     !.selected_file_index =
                         IF a.selected_file_index = -1 THEN 0 ELSE @], Ok, None)

remove_file(a, path) ==
    LET files == SelectSeq(a.files, LAMBDA file : file.path # path)
    IN  IF files = <<>>
        THEN Result([a EXCEPT !.files = files,
                              !.selected_file_index = -1,
                              !.selected_decision_index = -1], Ok, None)
        ELSE IF a.selected_file_index >= Len(files)
             THEN Result([a EXCEPT !.files = files,
                                   !.selected_file_index = Len(files) - 1,
                                   !.selected_decision_index = 0], Ok, None)
             ELSE Result([a EXCEPT !.files = files], Ok, None)

---------------------------------------------------------------------------
\* vrdx/app/commands.py

NoFileSelected == "RuntimeError: No markdown file is currently selected."

DecisionNotFound == "ValueError: Decision with id not found."

SourceIndexOutOfRange == "IndexError: Source index out of range"

TargetIndexOutOfRange == "IndexError: Target index out of range"

UnsupportedRelation == "ValueError: Unsupported relation"

SourceNotFound == "ValueError: Source decision not found."

TargetNotFound == "ValueError: Target decision not found."

\* the commands change the active FileState in place: it is the element of
\* app_state.files that current_file returned
with_decisions(a, decisions) ==
    [a EXCEPT !.files[a.selected_file_index + 1].decisions = decisions]

create_decision(a, title, decision, context, consequences, status) ==
    IF IsNone(current_file(a))
    THEN Result(a, NoFileSelected, None)
    ELSE LET file_state == Value(current_file(a))
             next_id == next_decision_id(file_state)
             built == DecisionRecord(
                 next_id,
                 IF strip(title) # <<>>
                 THEN strip(title)
                 ELSE <<"Decision", " ">> \o str_int(next_id),
                 normalise_status(IF IsNone(status) \/ Value(status) = <<>>
                                  THEN DEFAULT_STATUS
                                  ELSE Value(status)),
                 strip(decision),
                 strip(context),
                 strip(consequences),
                 <<>>)
             record == [built EXCEPT !.raw = render(built)]
             decision_state == DecisionState(record)
             inserted == with_decisions(
                 a, list_insert(file_state.decisions, 0, decision_state))
         IN  Result(mark_modified([inserted EXCEPT !.selected_decision_index = 0]),
                    Ok, Some(decision_state))

update_decision(a, decision_id, title, status, decision_text, context, consequences) ==
    IF IsNone(current_file(a))
    THEN Result(a, NoFileSelected, None)
    ELSE LET file_state == Value(current_file(a))
             index == find_index(file_state, decision_id)
         IN  IF IsNone(find_decision(file_state, decision_id))
             THEN Result(a, DecisionNotFound, None)
             ELSE LET record == Value(find_decision(file_state, decision_id)).record
                      cloned ==
                          [record EXCEPT
                              !.title = IF ~IsNone(title)
                                        THEN strip(Value(title)) ELSE @,
                              !.status = IF ~IsNone(status)
                                         THEN normalise_status(Value(status))
                                         ELSE @,
                              !.decision = IF ~IsNone(decision_text)
                                           THEN strip(Value(decision_text))
                                           ELSE @,
                              !.context = IF ~IsNone(context)
                                          THEN strip(Value(context)) ELSE @,
                              !.consequences = IF ~IsNone(consequences)
                                               THEN strip(Value(consequences))
                                               ELSE @]
                      updated == [cloned EXCEPT !.raw = render(cloned)]
                      decisions ==
                          [file_state.decisions EXCEPT ![index].record = updated]
                  IN  Result(mark_modified(with_decisions(a, decisions)),
                             Ok, Some(decisions[index]))

\* a move whose target check lets the index len(decisions) through
move_decision_target_unchecked(a, from_index, to_index) ==
    IF IsNone(current_file(a))
    THEN Result(a, NoFileSelected, None)
    ELSE LET decisions == Value(current_file(a)).decisions
         IN  IF ~(0 <= from_index /\ from_index < Len(decisions))
             THEN Result(a, SourceIndexOutOfRange, None)
             ELSE IF ~(0 <= to_index /\ to_index <= Len(decisions))
                  THEN Result(a, TargetIndexOutOfRange, None)
                  ELSE LET decision == decisions[from_index + 1]
                           moved == list_insert(list_pop(decisions, from_index),
                                                to_index, decision)
                       IN  Result(mark_modified(
                                      [with_decisions(a, moved) EXCEPT
                                          !.selected_decision_index = to_index]),
                                  Ok, None)

move_decision(a, from_index, to_index) ==
    IF IsNone(current_file(a))
    THEN Result(a, NoFileSelected, None)
    ELSE LET decisions == Value(current_file(a)).decisions
         IN  IF ~(0 <= from_index /\ from_index < Len(decisions))
             THEN Result(a, SourceIndexOutOfRange, None)
             ELSE IF ~(0 <= to_index /\ to_index < Len(decisions))
                  THEN Result(a, TargetIndexOutOfRange, None)
                  ELSE LET decision == decisions[from_index + 1]
                           moved == list_insert(list_pop(decisions, from_index),
                                                to_index, decision)
                       IN  Result(mark_modified(
                                      [with_decisions(a, moved) EXCEPT
                                          !.selected_decision_index = to_index]),
                                  Ok, None)

\* the selection after a decision was popped, length being the new length
\* a clamp without the floor at 0
clamp_selection_unfloored(selected, length) ==
    IF selected >= length THEN length - 1 ELSE selected

clamp_selection(selected, length) ==
    IF selected >= length THEN max(length - 1, 0) ELSE selected

\* the loop returns at the first match: index is its 0-based position
delete_decision(a, decision_id) ==
    IF IsNone(current_file(a))
    THEN Result(a, NoFileSelected, None)
    ELSE LET decisions == Value(current_file(a)).decisions
             matches == {i \in 0..(Len(decisions) - 1) :
                            decisions[i + 1].record.id = decision_id}
         IN  IF matches = {}
             THEN Result(a, DecisionNotFound, None)
             ELSE LET index == CHOOSE i \in matches : \A j \in matches : i <= j
                      removed == decisions[index + 1]
                      popped == list_pop(decisions, index)
                  IN  Result(mark_modified(
                                 [with_decisions(a, popped) EXCEPT
                                     !.selected_decision_index =
                                         clamp_selection(@, Len(popped))]),
                             Ok, Some(removed))

SupportedRelations == {"supersedes", "deprecated_by"}

\* a reciprocal that is the relation itself
reciprocal_of_same(rel) == rel

reciprocal_of(rel) == IF rel = "supersedes" THEN "deprecated_by" ELSE "supersedes"

\* source_state and target_state are references into the list: the second
\* call sees what the first one did when both are the same decision
link_decisions(a, source_id, target_id, relation) ==
    IF relation \notin SupportedRelations
    THEN Result(a, UnsupportedRelation, None)
    ELSE IF IsNone(current_file(a))
    THEN Result(a, NoFileSelected, None)
    ELSE LET file_state == Value(current_file(a))
             source == find_index(file_state, source_id)
             target == find_index(file_state, target_id)
         IN  IF IsNone(find_decision(file_state, source_id))
             THEN Result(a, SourceNotFound, None)
             ELSE IF IsNone(find_decision(file_state, target_id))
             THEN Result(a, TargetNotFound, None)
             ELSE LET first == [file_state.decisions EXCEPT
                                   ![source] = add_link(@, relation, target_id)]
                      second == [first EXCEPT
                                    ![target] = add_link(@, reciprocal_of(relation),
                                                         source_id)]
                  IN  Result(mark_modified(with_decisions(a, second)), Ok,
                             Some(DecisionLink(source_id, target_id, relation)))

\* an unlink that marks the aggregate modified before it looks for the
\* endpoints
unlink_decisions_marking(a, source_id, target_id, relation) ==
    IF relation \notin SupportedRelations
    THEN Result(a, UnsupportedRelation, None)
    ELSE IF IsNone(current_file(a))
    THEN Result(a, NoFileSelected, None)
    ELSE LET file_state == Value(current_file(a))
             source == find_index(file_state, source_id)
             target == find_index(file_state, target_id)
         IN  IF IsNone(find_decision(file_state, source_id))
             THEN Result(mark_modified(a), Ok, None)
             ELSE IF IsNone(find_decision(file_state, target_id))
             THEN Result(mark_modified(a), Ok, None)
             ELSE LET first == [file_state.decisions EXCEPT
                                   ![source] = remove_link(@, relation, target_id)]
                      second == [first EXCEPT
                                    ![target] = remove_link(@, reciprocal_of(relation),
                                                            source_id)]
                  IN  Result(mark_modified(with_decisions(a, second)), Ok, None)

unlink_decisions(a, source_id, target_id, relation) ==
    IF relation \notin SupportedRelations
    THEN Result(a, UnsupportedRelation, None)
    ELSE IF IsNone(current_file(a))
    THEN Result(a, NoFileSelected, None)
    ELSE LET file_state == Value(current_file(a))
             source == find_index(file_state, source_id)
             target == find_index(file_state, target_id)
         IN  IF IsNone(find_decision(file_state, source_id))
             THEN Result(a, Ok, None)
             ELSE IF IsNone(find_decision(file_state, target_id))
             THEN Result(a, Ok, None)
             ELSE LET first == [file_state.decisions EXCEPT
                                   ![source] = remove_link(@, relation, target_id)]
                      second == [first EXCEPT
                                    ![target] = remove_link(@, reciprocal_of(relation),
                                                            source_id)]
                  IN  Result(mark_modified(with_decisions(a, second)), Ok, None)

\* a sort that leaves the list as it is
sorted_as_given(decisions) == decisions

\* sorted(decisions, key=lambda d: d.record.id, reverse=True): stable, the
\* decisions with equal ids keep their order
sorted_by_id_descending(decisions) ==
    LET before(i) == {j \in 1..Len(decisions) :
                         \/ decisions[j].record.id > decisions[i].record.id
                         \/ /\ decisions[j].record.id = decisions[i].record.id
                            /\ j < i}
    IN  [r \in 1..Len(decisions) |->
            decisions[CHOOSE i \in 1..Len(decisions) :
                          Cardinality(before(i)) = r - 1]]

\* a refresh_file_from_body that keeps the order of the body
refresh_file_from_body_as_parsed(a, path, text, marker_present, inserted_marker) ==
    LET file_state == [FileState(path, <<>>) EXCEPT
                          !.marker_present = marker_present,
                          !.inserted_marker = inserted_marker]
        refreshed(parsed) ==
            IF parsed.err # "ok"
            THEN Result(a, DecisionParseError, None)
            ELSE Result(a, Ok,
                        Some([parsed.file EXCEPT
                                 !.decisions = parsed.file.decisions]))
    IN  CHOOSE result \in {refreshed(parsed) :
                               parsed \in {parse_body(file_state, text)}} : TRUE

refresh_file_from_body(a, path, text, marker_present, inserted_marker) ==
    LET file_state == [FileState(path, <<>>) EXCEPT
                          !.marker_present = marker_present,
                          !.inserted_marker = inserted_marker]
        refreshed(parsed) ==
            IF parsed.err # "ok"
            THEN Result(a, DecisionParseError, None)
            ELSE Result(a, Ok,
                        Some([parsed.file EXCEPT
                                 !.decisions =
                                     sorted_by_id_descending(parsed.file.decisions)]))
    IN  CHOOSE result \in {refreshed(parsed) :
                               parsed \in {parse_body(file_state, text)}} : TRUE

load_files(a, file_states) ==
    Result(mark_saved(set_files(a, file_states).app), Ok, None)

append_file_state(a, file_state) ==
    Result(mark_saved(add_file(a, file_state).app), Ok, None)

focus_next_decision(a) ==
    IF IsNone(current_file(a))
    THEN Result(a, NoFileSelected, None)
    ELSE IF Value(current_file(a)).decisions = <<>>
         THEN Result(a, Ok, None)
         ELSE Result([a EXCEPT !.selected_decision_index =
                          min(@ + 1, Len(Value(current_file(a)).decisions) - 1)],
                     Ok, None)

\* a focus_previous_decision that returns when no file is active
focus_previous_decision_silent(a) ==
    IF IsNone(current_file(a))
    THEN Result(a, Ok, None)
    ELSE IF Value(current_file(a)).decisions = <<>>
         THEN Result(a, Ok, None)
         ELSE Result([a EXCEPT !.selected_decision_index = max(@ - 1, 0)],
                     Ok, None)

focus_previous_decision(a) ==
    IF IsNone(current_file(a))
    THEN Result(a, NoFileSelected, None)
    ELSE IF Value(current_file(a)).decisions = <<>>
         THEN Result(a, Ok, None)
         ELSE Result([a EXCEPT !.selected_decision_index = max(@ - 1, 0)],
                     Ok, None)

---------------------------------------------------------------------------
\* Inputs

\* FileState(path).parse_body(body) for a body in canonical form: one
\* DecisionState per section, in the order of the body, without links; ids
\* are whatever the headings say and may repeat
parsed_record(id) ==
    LET built == DecisionRecord(id, <<"t">>, DEFAULT_STATUS, <<"d">>, <<"c">>,
                                <<"q">>, <<>>)
    IN  [built EXCEPT !.raw = render(built)]

sample_file(path, ids) ==
    parse_body(FileState(path, <<>>),
               render_decisions([i \in 1..Len(ids) |-> parsed_record(ids[i])])).file

\* the files discovery finds: each path once
SampleFiles ==
    {sample_file("a.md", <<>>), sample_file("a.md", <<1, 0>>),
     sample_file("a.md", <<0, 0>>)}

Paths == {"a.md", "b.md"}

\* load_files gets no file or one file here; longer lists are reached with
\* append_file_state
LoadInputs == {<<>>} \cup {<<f>> : f \in SampleFiles}

IdInputs == 0..(MaxId + 1)

IndexInputs == (-1)..MaxDecisions

RelationInputs == SupportedRelations \cup {"relates_to"}

\* source id, target id, relation: every pair of ids with a supported
\* relation, and one call with an unsupported one
LinkInputs ==
    (IdInputs \X IdInputs \X SupportedRelations) \cup {<<0, 0, "relates_to">>}

RECURSIVE decision_count(_)
decision_count(files) ==
    IF files = <<>>
    THEN 0
    ELSE Len(Head(files).decisions) + decision_count(Tail(files))

RECURSIVE link_count(_)
link_count(decisions) ==
    IF decisions = <<>>
    THEN 0
    ELSE Len(Head(decisions).links) + link_count(Tail(decisions))

---------------------------------------------------------------------------
\* Specification

\* A call leaves the aggregate as the command left it, whether it returned
\* or raised.

Init ==
    /\ app_state = NewAppState
    /\ body = <<>>
    /\ document = <<>>

LoadFiles ==
    \E files \in LoadInputs :
        /\ app_state' = load_files(app_state, files).app
        /\ UNCHANGED text_vars

AppendFileState ==
    \E f \in SampleFiles :
        /\ \A i \in 1..Len(app_state.files) : app_state.files[i].path # f.path
        /\ decision_count(app_state.files) + Len(f.decisions) <= MaxDecisions
        /\ app_state' = append_file_state(app_state, f).app
        /\ UNCHANGED text_vars

RemoveFile ==
    \E path \in Paths :
        /\ app_state' = remove_file(app_state, path).app
        /\ UNCHANGED text_vars

Reset ==
    /\ app_state' = reset(app_state).app
    /\ UNCHANGED text_vars

SelectFile ==
    \E index \in (-1)..Cardinality(Paths) :
        /\ app_state' = select_file(app_state, index).app
        /\ UNCHANGED text_vars

SelectDecision ==
    \E index \in IndexInputs :
        /\ app_state' = select_decision(app_state, index).app
        /\ UNCHANGED text_vars

MarkSaved ==
    /\ app_state' = mark_saved(app_state)
    /\ UNCHANGED text_vars

\* the list and the ids grow without bound under create: the guard stops at
\* MaxDecisions decisions and at id MaxId
CanCreate ==
    IF IsNone(current_file(app_state))
    THEN TRUE
    ELSE /\ decision_count(app_state.files) < MaxDecisions
         /\ next_decision_id(Value(current_file(app_state))) <= MaxId

CreateDecision ==
    \E title \in {<<" ", "t">>} :
        /\ CanCreate
        /\ app_state' = create_decision(app_state, title, <<"d", " ">>, <<"c">>,
                                        <<"q">>, None).app
        /\ UNCHANGED text_vars

UpdateDecision ==
    \E id \in IdInputs,
       fields \in {<<None, None>>, <<Some(<<"u", " ">>), Some(STATUS_OPTIONS[2])>>} :
        /\ app_state' = update_decision(app_state, id, fields[1], fields[2], None,
                                        None, None).app
        /\ UNCHANGED text_vars

MoveDecision ==
    \E from_index \in IndexInputs, to_index \in IndexInputs :
        /\ app_state' = move_decision(app_state, from_index, to_index).app
        /\ UNCHANGED text_vars

DeleteDecision ==
    \E id \in IdInputs :
        /\ app_state' = delete_decision(app_state, id).app
        /\ UNCHANGED text_vars

CanLink ==
    IF IsNone(current_file(app_state))
    THEN TRUE
    ELSE link_count(Value(current_file(app_state)).decisions) < MaxLinks

LinkDecisions ==
    \E args \in LinkInputs :
        /\ CanLink
        /\ app_state' = link_decisions(app_state, args[1], args[2], args[3]).app
        /\ UNCHANGED text_vars

UnlinkDecisions ==
    \E args \in LinkInputs :
        /\ app_state' = unlink_decisions(app_state, args[1], args[2], args[3]).app
        /\ UNCHANGED text_vars

FocusNextDecision ==
    /\ app_state' = focus_next_decision(app_state).app
    /\ UNCHANGED text_vars

FocusPreviousDecision ==
    /\ app_state' = focus_previous_decision(app_state).app
    /\ UNCHANGED text_vars

Next ==
    \/ LoadFiles
    \/ AppendFileState
    \/ RemoveFile
    \/ Reset
    \/ SelectFile
    \/ SelectDecision
    \/ MarkSaved
    \/ CreateDecision
    \/ UpdateDecision
    \/ MoveDecision
    \/ DeleteDecision
    \/ LinkDecisions
    \/ UnlinkDecisions
    \/ FocusNextDecision
    \/ FocusPreviousDecision

Spec == Init /\ [][Next]_vars

---------------------------------------------------------------------------
\* Properties.  A property about a command quantifies over the command's
\* arguments and states what the command does to the reachable aggregate it
\* is called on.

ActiveFile == ~IsNone(current_file(app_state))

\* the decision list of the active file of aggregate a
Decisions(a) == Value(current_file(a)).decisions

Ids(decisions) == {decisions[i].record.id : i \in 1..Len(decisions)}

\* the position (1-based) of the first decision with the id
FirstPos(decisions, id) ==
    CHOOSE i \in 1..Len(decisions) :
        /\ decisions[i].record.id = id
        /\ \A j \in 1..(i - 1) : decisions[j].record.id # id

\* the sequence without its k-th element (1-based)
Without(s, k) ==
    [j \in 1..(Len(s) - 1) |-> IF j < k THEN s[j] ELSE s[j + 1]]

\* decision d holds an edge of the relation to the target id
HoldsLink(d, relation, target_id) ==
    \E k \in 1..Len(d.links) :
        d.links[k] = [source_id |-> d.record.id, target_id |-> target_id,
                      relation |-> relation]

\* in the active file of a, the decision with id A holds the edge to id B
Holds(a, A, relation, B) ==
    /\ A \in Ids(Decisions(a))
    /\ HoldsLink(Decisions(a)[FirstPos(Decisions(a), A)], relation, B)

\* some link of d, of either relation, targets the id
Targets(d, target_id) ==
    \E k \in 1..Len(d.links) : d.links[k].target_id = target_id

\* C1: reciprocity.  In every reachable state, whenever a decision A of a
\* file holds a supersedes link to id B, a decision with id B is in that file
\* and holds a deprecated_by link to A's id.
C1_Reciprocity ==
    \A f \in 1..Len(app_state.files) :
        LET decisions == app_state.files[f].decisions
        IN  \A i \in 1..Len(decisions) : \A k \in 1..Len(decisions[i].links) :
                decisions[i].links[k].relation = "supersedes" =>
                    \E j \in 1..Len(decisions) :
                        /\ decisions[j].record.id = decisions[i].links[k].target_id
                        /\ HoldsLink(decisions[j], "deprecated_by",
                                     decisions[i].record.id)

\* C2: with an active file holding decisions with ids A and B, link_decisions
\* with a supported relation succeeds, leaves A holding the relation's edge
\* to B and B holding the inverse edge to A, and sets the modified flag.
C2_LinkAddsBothEdges ==
    ActiveFile =>
        \A A \in Ids(Decisions(app_state)), B \in Ids(Decisions(app_state)) :
            LET sup == link_decisions(app_state, A, B, "supersedes")
                dep == link_decisions(app_state, A, B, "deprecated_by")
            IN  /\ sup.err = Ok
                /\ Holds(sup.app, A, "supersedes", B)
                /\ Holds(sup.app, B, "deprecated_by", A)
                /\ sup.app.is_modified
                /\ dep.err = Ok
                /\ Holds(dep.app, A, "deprecated_by", B)
                /\ Holds(dep.app, B, "supersedes", A)
                /\ dep.app.is_modified

\* C2 witness: the aggregate after a link between two different ids: one
\* holds supersedes, the other the deprecated_by edge back, flag set.
C2_Witness ==
    /\ ActiveFile
    /\ app_state.is_modified
    /\ \E A \in Ids(Decisions(app_state)), B \in Ids(Decisions(app_state)) :
           /\ A # B
           /\ Holds(app_state, A, "supersedes", B)
           /\ Holds(app_state, B, "deprecated_by", A)

\* C3: for two decisions with different ids that hold no link to each other,
\* link_decisions(A, B, supersedes) followed by unlink_decisions(A, B,
\* supersedes), or by unlink_decisions(B, A, deprecated_by), leaves every
\* decision of the file, link lists included, as it was before the link.
C3_UnlinkRestores ==
    ActiveFile =>
        \A A \in Ids(Decisions(app_state)), B \in Ids(Decisions(app_state)) :
            LET before == Decisions(app_state)
                linked == link_decisions(app_state, A, B, "supersedes").app
                by_source == unlink_decisions(linked, A, B, "supersedes")
                by_target == unlink_decisions(linked, B, A, "deprecated_by")
            IN  (/\ A # B
                 /\ ~Targets(before[FirstPos(before, A)], B)
                 /\ ~Targets(before[FirstPos(before, B)], A))
                => /\ by_source.err = Ok
                   /\ Decisions(by_source.app) = before
                   /\ by_target.err = Ok
                   /\ Decisions(by_target.app) = before

\* C3 witness: the aggregate after such a link (A and B hold exactly the two
\* edges to each other), from which either unlink leaves neither holding an
\* edge to the other.
C3_Witness ==
    /\ ActiveFile
    /\ \E A \in Ids(Decisions(app_state)), B \in Ids(Decisions(app_state)) :
           LET by_source == unlink_decisions(app_state, A, B, "supersedes").app
               by_target == unlink_decisions(app_state, B, A, "deprecated_by").app
           IN  /\ A # B
               /\ Holds(app_state, A, "supersedes", B)
               /\ Holds(app_state, B, "deprecated_by", A)
               /\ \A u \in {by_source, by_target} :
                      /\ ~Targets(Decisions(u)[FirstPos(Decisions(u), A)], B)
                      /\ ~Targets(Decisions(u)[FirstPos(Decisions(u), B)], A)

\* C4: with an active file, unlink_decisions with a supported relation and a
\* source id or target id that is not in the file raises nothing and leaves
\* the whole aggregate (decisions, links, selection, modified flag) as it was.
C4_UnlinkMissingIsNoOp ==
    ActiveFile =>
        \A source_id \in IdInputs, target_id \in IdInputs,
           relation \in SupportedRelations :
            (\/ source_id \notin Ids(Decisions(app_state))
             \/ target_id \notin Ids(Decisions(app_state)))
            => LET r == unlink_decisions(app_state, source_id, target_id, relation)
               IN  r.err = Ok /\ r.app = app_state

\* C4 witness: a saved aggregate whose active file holds a link from a
\* present id to an id that is no longer in the file: the unlink of that
\* edge finds no target and changes nothing, the flag stays clear.
C4_Witness ==
    /\ ActiveFile
    /\ ~app_state.is_modified
    /\ \E A \in Ids(Decisions(app_state)), B \in IdInputs :
           /\ B \notin Ids(Decisions(app_state))
           /\ Holds(app_state, A, "supersedes", B)
           /\ unlink_decisions(app_state, A, B, "supersedes").app = app_state

\* arguments of update_decision: title, status, decision_text, context,
\* consequences; nothing supplied, one field supplied, all supplied
UpdateInputs ==
    {<<None, None, None, None, None>>,
     <<Some(<<" ", "v">>), None, None, None, None>>,
     <<None, Some(STATUS_OPTIONS[3]), None, None, None>>,
     <<None, Some(<<"Unknown">>), None, None, None>>,
     <<None, None, Some(<<"v", NL>>), None, None>>,
     <<None, None, None, Some(<<>>), None>>,
     <<None, None, None, None, Some(<<"v", " ", "w">>)>>,
     <<Some(<<>>), Some(STATUS_OPTIONS[2]), Some(<<"v">>), Some(<<"v">>),
       Some(<<NL, "v">>)>>}

update_with(a, decision_id, fields) ==
    update_decision(a, decision_id, fields[1], fields[2], fields[3], fields[4],
                    fields[5])

\* arguments of create_decision: title and status (the other texts are fixed)
CreateInputs ==
    {<<>>, <<" ">>, <<" ", "v", " ", "w", NL>>}
        \X {None, Some(<<>>), Some(<<"Unknown">>), Some(STATUS_OPTIONS[3])}

create_with(a, fields) ==
    create_decision(a, fields[1], <<" ", "d">>, <<>>, <<"q", NL>>, fields[2])

\* C5: with an active file, a failing command raises and leaves the whole
\* aggregate as it was: update and delete with an id not in the file, move
\* with an index outside [0, len-1], link with an unsupported relation or a
\* missing source or target id, unlink with an unsupported relation.
C5_FailingCommandsChangeNothing ==
    ActiveFile =>
        LET present == Ids(Decisions(app_state))
            length == Len(Decisions(app_state))
            Fails(r, err) == r.err = err /\ r.app = app_state
        IN  /\ \A id \in IdInputs \ present :
                   /\ Fails(delete_decision(app_state, id), DecisionNotFound)
                   /\ \A fields \in UpdateInputs :
                          Fails(update_with(app_state, id, fields), DecisionNotFound)
            /\ \A from_index \in IndexInputs, to_index \in IndexInputs :
                   LET r == move_decision(app_state, from_index, to_index)
                   IN  /\ ~(0 <= from_index /\ from_index <= length - 1)
                          => Fails(r, SourceIndexOutOfRange)
                       /\ (/\ 0 <= from_index /\ from_index <= length - 1
                           /\ ~(0 <= to_index /\ to_index <= length - 1))
                          => Fails(r, TargetIndexOutOfRange)
            /\ \A source_id \in IdInputs, target_id \in IdInputs :
                   /\ Fails(link_decisions(app_state, source_id, target_id,
                                           "relates_to"), UnsupportedRelation)
                   /\ Fails(unlink_decisions(app_state, source_id, target_id,
                                             "relates_to"), UnsupportedRelation)
                   /\ \A relation \in SupportedRelations :
                          LET r == link_decisions(app_state, source_id, target_id,
                                                  relation)
                          IN  /\ source_id \notin present
                                 => Fails(r, SourceNotFound)
                              /\ (source_id \in present /\ target_id \notin present)
                                 => Fails(r, TargetNotFound)

\* C5 witness: an aggregate with links and a selection other than 0 on which
\* each of the failing calls raises: an absent id, the index len, an
\* unsupported relation, a link to an absent target.
C5_Witness ==
    /\ ActiveFile
    /\ app_state.selected_decision_index = 1
    /\ link_count(Decisions(app_state)) > 0
    /\ \E id \in IdInputs :
           /\ delete_decision(app_state, id).err = DecisionNotFound
           /\ update_with(app_state, id, <<Some(<<"v">>), None, None, None, None>>).err
                  = DecisionNotFound
           /\ link_decisions(app_state, 0, id, "supersedes").err = TargetNotFound
           /\ link_decisions(app_state, id, 0, "supersedes").err = SourceNotFound
    /\ move_decision(app_state, 0, Len(Decisions(app_state))).err
           = TargetIndexOutOfRange
    /\ move_decision(app_state, -1, 0).err = SourceIndexOutOfRange
    /\ link_decisions(app_state, 0, 1, "relates_to").err = UnsupportedRelation
    /\ unlink_decisions(app_state, 0, 1, "relates_to").err = UnsupportedRelation

\* every command of the list, called without an active file, raises the
\* no-file-selected error and changes nothing; link and unlink are called
\* with the relations given
NoFileCommandsRaise(link_relations, unlink_relations) ==
    LET Raises(r) == r.err = NoFileSelected /\ r.app = app_state
    IN  /\ \A fields \in CreateInputs : Raises(create_with(app_state, fields))
        /\ \A id \in IdInputs :
               /\ Raises(delete_decision(app_state, id))
               /\ \A fields \in UpdateInputs :
                      Raises(update_with(app_state, id, fields))
        /\ \A from_index \in IndexInputs, to_index \in IndexInputs :
               Raises(move_decision(app_state, from_index, to_index))
        /\ \A source_id \in IdInputs, target_id \in IdInputs :
               /\ \A relation \in link_relations :
                      Raises(link_decisions(app_state, source_id, target_id,
                                            relation))
               /\ \A relation \in unlink_relations :
                      Raises(unlink_decisions(app_state, source_id, target_id,
                                              relation))
        /\ Raises(focus_next_decision(app_state))
        /\ Raises(focus_previous_decision(app_state))

\* C6 as stated: without an active file each of create, update, move, delete,
\* link (any relation), unlink (with a supported relation), focus_next_decision
\* and focus_previous_decision raises the no-file-selected error and leaves
\* the aggregate unchanged.
C6_NoFileRaises_AsStated ==
    ~ActiveFile => NoFileCommandsRaise(RelationInputs, SupportedRelations)

\* C6: without an active file each of create, update, move, delete, link and
\* unlink (both with a supported relation), focus_next_decision and
\* focus_previous_decision raises the no-file-selected error and leaves the
\* aggregate unchanged.
C6_NoFileRaises ==
    ~ActiveFile => NoFileCommandsRaise(SupportedRelations, SupportedRelations)

\* C6 witness: an aggregate left without files by a load that found none or
\* by the removal of its last file (selected file index -1), on which the
\* commands raise the no-file-selected error.
C6_Witness ==
    /\ ~ActiveFile
    /\ app_state.files = <<>>
    /\ app_state.selected_file_index = -1
    /\ create_with(app_state, <<<<"v">>, None>>).err = NoFileSelected
    /\ link_decisions(app_state, 0, 1, "supersedes").err = NoFileSelected
    /\ focus_next_decision(app_state).err = NoFileSelected

\* C7: create_decision on an active file with decision list D leaves the
\* list [new] followed by D, where new.id is 0 when D is empty and the
\* largest id of D plus 1 otherwise; the selected decision index is 0,
\* current_decision() is the new decision and the modified flag is set.
C7_CreatePrepends ==
    ActiveFile =>
        \A fields \in CreateInputs :
            LET D == Decisions(app_state)
                r == create_with(app_state, fields)
                new == Value(r.ret)
            IN  /\ r.err = Ok
                /\ Decisions(r.app) = <<new>> \o D
                /\ D = <<>> => new.record.id = 0
                /\ D # <<>> =>
                       /\ new.record.id - 1 \in Ids(D)
                       /\ \A id \in Ids(D) : id <= new.record.id - 1
                /\ r.app.selected_decision_index = 0
                /\ current_decision(r.app) = Some(new)
                /\ r.app.is_modified

\* C7 witness: a file holding two decisions with the same id 0 and the
\* selection on the second, where create hands out id 1 (not the count 2),
\* puts the new decision in front and moves the selection to it.
C7_Witness ==
    /\ ActiveFile
    /\ Len(Decisions(app_state)) = 2
    /\ Ids(Decisions(app_state)) = {0}
    /\ app_state.selected_decision_index = 1
    /\ ~app_state.is_modified
    /\ LET r == create_with(app_state, <<<<" ">>, None>>)
       IN  /\ Value(r.ret).record.id = 1
           /\ Value(r.ret).record.title = <<"Decision", " ", "1">>
           /\ Len(Decisions(r.app)) = 3
           /\ r.app.selected_decision_index = 0
           /\ r.app.is_modified

\* C8: a successful update_decision changes only the supplied fields of the
\* first decision with the id: a text field that is not supplied keeps its
\* value, the decision's id, position and links are unchanged, every other
\* decision is unchanged, the selection indices are unchanged and the
\* modified flag is set (raw is the render of the record after the update).
C8_UpdateFrame ==
    ActiveFile =>
        \A id \in Ids(Decisions(app_state)), fields \in UpdateInputs :
            LET D == Decisions(app_state)
                p == FirstPos(D, id)
                r == update_with(app_state, id, fields)
                U == Decisions(r.app)
            IN  /\ r.err = Ok
                /\ Len(U) = Len(D)
                /\ \A i \in 1..Len(D) : i # p => U[i] = D[i]
                /\ U[p].links = D[p].links
                /\ U[p].record.id = id
                /\ IsNone(fields[1]) => U[p].record.title = D[p].record.title
                /\ IsNone(fields[2]) => U[p].record.status = D[p].record.status
                /\ IsNone(fields[3]) => U[p].record.decision = D[p].record.decision
                /\ IsNone(fields[4]) => U[p].record.context = D[p].record.context
                /\ IsNone(fields[5])
                       => U[p].record.consequences = D[p].record.consequences
                /\ U[p].record.raw = render(U[p].record)
                /\ r.app.selected_file_index = app_state.selected_file_index
                /\ r.app.selected_decision_index = app_state.selected_decision_index
                /\ r.app.is_modified

\* C8 witness: a file with two decisions of the same id whose first one has
\* been updated (title and status differ from the second's), with its links
\* in place and the selection not on it.
C8_Witness ==
    /\ ActiveFile
    /\ app_state.is_modified
    /\ app_state.selected_decision_index = 1
    /\ LET D == Decisions(app_state)
       IN  /\ Len(D) = 2
           /\ D[1].record.id = D[2].record.id
           /\ D[1].record.title = <<"u">>
           /\ D[1].record.status = STATUS_OPTIONS[2]
           /\ D[2].record.title = <<"t">>
           /\ D[1].record.decision = D[2].record.decision
           /\ D[1].links # <<>>

C11_SelectionInRange ==
    /\ app_state.files # <<>> =>
           /\ 0 <= app_state.selected_file_index
           /\ app_state.selected_file_index <= Len(app_state.files) - 1
    /\ (ActiveFile /\ Decisions(app_state) # <<>>) =>
           /\ 0 <= app_state.selected_decision_index
           /\ app_state.selected_decision_index <= Len(Decisions(app_state)) - 1

---------------------------------------------------------------------------
\* Selection over two files: a specification of the selection operations and
\* of the commands that do not add decisions, on a longer file "a.md"
\* followed by a shorter file "b.md".

NavFiles == <<sample_file("a.md", <<1, 0, 0>>), sample_file("b.md", <<0>>)>>

NavLoadFiles ==
    \E files \in {NavFiles, <<NavFiles[2], NavFiles[1]>>} :
        /\ app_state' = load_files(app_state, files).app
        /\ UNCHANGED text_vars

NavNext ==
    \/ NavLoadFiles
    \/ RemoveFile
    \/ Reset
    \/ SelectFile
    \/ SelectDecision
    \/ MoveDecision
    \/ DeleteDecision
    \/ FocusNextDecision
    \/ FocusPreviousDecision

NavSpec == Init /\ [][NavNext]_vars

\* C12: navigation is clamped index arithmetic: from every reachable state
\* with an active file, focus_next_decision and focus_previous_decision on a
\* non-empty list leave the selected decision index within [0, len-1] (next
\* at the last index and previous at index 0 change nothing), on an empty
\* list they change nothing, and they never change decisions, links or the
\* modified flag.
C12_NavigationClamped ==
    ActiveFile =>
        LET D == Decisions(app_state)
            selected == app_state.selected_decision_index
            next == focus_next_decision(app_state)
            previous == focus_previous_decision(app_state)
        IN  /\ next.err = Ok /\ previous.err = Ok
            /\ \A r \in {next, previous} :
                   /\ r.app.files = app_state.files
                   /\ r.app.is_modified = app_state.is_modified
                   /\ D = <<>> => r.app = app_state
                   /\ D # <<>> =>
                          /\ 0 <= r.app.selected_decision_index
                          /\ r.app.selected_decision_index <= Len(D) - 1
            /\ (D # <<>> /\ selected = Len(D) - 1) => next.app = app_state
            /\ (D # <<>> /\ selected = 0) => previous.app = app_state

---------------------------------------------------------------------------
\* Parsing: a specification of a body pasted block by block, parsed into
\* the current file or into a new file that is then loaded, and of links
\* made in the loaded file.

MaxBlocks == 2

\* a decision section as render writes it, followed by an empty line
section_block(record) == render(record) \o <<NL, NL>>

\* the blocks pasted: two sections, a section without its Consequences
\* line, a section with an empty Decision and without its Context line, a
\* heading line with a title of spaces, a heading line without a title, a
\* line of other text
BodyBlocks ==
    {section_block(parsed_record(1)),
     section_block([parsed_record(0) EXCEPT !.title = <<"u">>]),
     <<"###", " ", "2", " ", "t", NL,
       "*", " ", "**Status**:", " ", "s", NL,
       "*", " ", "**Decision**:", " ", "d", NL,
       "*", " ", "**Context**:", " ", "c", NL, NL>>,
     <<"###", " ", "2", " ", "t", NL,
       "*", " ", "**Status**:", " ", "s", NL,
       "*", " ", "**Decision**:", NL,
       "*", " ", "**Consequences**:", " ", "q", NL, NL>>,
     <<"###", " ", "1", " ", " ", NL>>,
     <<"###", " ", "1", NL>>,
     <<"x", NL>>}

RECURSIVE concat(_)
concat(blocks) ==
    IF blocks = <<>> THEN <<>> ELSE Head(blocks) \o concat(Tail(blocks))

\* the text the blocks pasted so far make up
body_text == concat(body)

PasteBlock ==
    \E block \in BodyBlocks :
        /\ Len(body) < MaxBlocks
        /\ body' = Append(body, block)
        /\ UNCHANGED <<app_state, document>>

ClearBody ==
    /\ body' = <<>>
    /\ UNCHANGED <<app_state, document>>

\* current_file().parse_body(body): the FileState is changed in place
ParseBody ==
    /\ ~IsNone(current_file(app_state))
    /\ app_state' =
           [app_state EXCEPT
               !.files[app_state.selected_file_index + 1] =
                   parse_body(Value(current_file(app_state)), body_text).file]
    /\ UNCHANGED text_vars

\* refresh_file_from_body, and load_files with the FileState it returned
LoadRefreshed ==
    \E refreshed \in {refresh_file_from_body(app_state, "a.md", body_text,
                                              TRUE, FALSE)} :
        /\ app_state' = IF refreshed.err = Ok
                        THEN load_files(app_state, <<Value(refreshed.ret)>>).app
                        ELSE app_state
        /\ UNCHANGED text_vars

ParseLink ==
    /\ CanLink
    /\ app_state' = link_decisions(app_state, 1, 0, "supersedes").app
    /\ UNCHANGED text_vars

ParseNext ==
    \/ PasteBlock
    \/ ClearBody
    \/ ParseBody
    \/ LoadRefreshed
    \/ ParseLink

ParseSpec == Init /\ [][ParseNext]_vars


\* the number of places of a sequence that hold x
occurrences(seq, x) == Cardinality({k \in 1..Len(seq) : seq[k] = x})

\* C13: refresh_file_from_body returns a new FileState whose decisions are
\* exactly the records parse_decisions yields for the body, reordered so
\* that the ids are non-increasing, each with an empty link list; the
\* AppState passed in is not modified, and a parse error propagates without
\* a FileState being returned.
C13_RefreshReparsesSorted ==
    \A parsed \in {parse_decisions(body_text)},
       r \in {refresh_file_from_body(app_state, "a.md", body_text, TRUE, FALSE)} :
        /\ r.app = app_state
        /\ parsed.err # "ok" => r.err = DecisionParseError /\ IsNone(r.ret)
        /\ parsed.err = "ok" =>
               /\ r.err = Ok
               /\ ~IsNone(r.ret)
               /\ \A file_state \in {Value(r.ret)} :
                      /\ file_state.path = "a.md"
                      /\ file_state.marker_present
                      /\ ~file_state.inserted_marker
                      /\ Len(file_state.decisions) = Len(parsed.records)
                      /\ \A k \in 1..Len(file_state.decisions) :
                             /\ file_state.decisions[k].links = <<>>
                             /\ occurrences([j \in 1..Len(file_state.decisions) |->
                                                file_state.decisions[j].record],
                                            file_state.decisions[k].record)
                                = occurrences(parsed.records,
                                              file_state.decisions[k].record)
                      /\ \A k \in 1..(Len(file_state.decisions) - 1) :
                             file_state.decisions[k].record.id
                             >= file_state.decisions[k + 1].record.id

\* C13 witness: the body holds the section of id 0 before the section of
\* id 1, and the file loaded is the refreshed one, id 1 first
C13_Witness ==
    /\ parse_decisions(body_text).err = "ok"
    /\ [k \in 1..Len(parse_decisions(body_text).records) |->
           parse_decisions(body_text).records[k].id] = <<0, 1>>
    /\ ~IsNone(current_file(app_state))
    /\ Some(Value(current_file(app_state)))
       = refresh_file_from_body(app_state, "a.md", body_text, TRUE, FALSE).ret
    /\ [k \in 1..Len(Value(current_file(app_state)).decisions) |->
           Value(current_file(app_state)).decisions[k].record.id] = <<1, 0>>

\* C14: FileState.parse_body is all-or-nothing: when a section of the body
\* raises DecisionParseError, a late one after valid ones included, the
\* FileState is what it was before the call, decisions and links; when every
\* section parses, the list is replaced wholesale by the parsed records in
\* the order of the body.
C14_ParseBodyAllOrNothing ==
    \A sections \in {_iter_decision_sections(body_text)} :
        \A i \in 1..Len(app_state.files) :
            \A p \in {parse_body(app_state.files[i], body_text)} :
                /\ (\E k \in 1..Len(sections) : parse_section(sections[k]).err # "ok")
                       => /\ p.err = DecisionParseError
                          /\ p.file = app_state.files[i]
                /\ p.err # "ok" => p.file = app_state.files[i]
                /\ p.err = "ok" =>
                       /\ Len(p.file.decisions) = Len(sections)
                       /\ \A k \in 1..Len(sections) :
                              /\ Some(p.file.decisions[k].record)
                                 = parse_section(sections[k]).record
                              /\ p.file.decisions[k].links = <<>>
                       /\ [p.file EXCEPT !.decisions = app_state.files[i].decisions]
                          = app_state.files[i]

\* C14 witness: the current file holds linked decisions, and the body is a
\* valid section followed by the section without its Consequences line
C14_Witness ==
    /\ ~IsNone(current_file(app_state))
    /\ \E k \in 1..Len(Value(current_file(app_state)).decisions) :
           Value(current_file(app_state)).decisions[k].links # <<>>
    /\ Len(_iter_decision_sections(body_text)) = 2
    /\ parse_section(_iter_decision_sections(body_text)[1]).err = "ok"
    /\ parse_section(_iter_decision_sections(body_text)[2]).err # "ok"
    /\ parse_body(Value(current_file(app_state)), body_text).err = DecisionParseError


\* the curated status list as a set
Curated == {STATUS_OPTIONS[i] : i \in 1..Len(STATUS_OPTIONS)}

\* status arguments: none, the empty one, every curated one, an unknown
\* one, curated ones with a space before or behind
StatusInputs ==
    {None, Some(<<>>), Some(<<"Unknown">>),
     Some(STATUS_OPTIONS[2] \o <<" ">>), Some(<<" ">> \o DEFAULT_STATUS)}
        \cup {Some(status) : status \in Curated}

---------------------------------------------------------------------------
\* vrdx/parser/markers.py.  A document is a sequence of tokens: the two
\* sentinels, the characters "\n" and "\r", and other characters.  No
\* sentinel overlaps itself or the other one, so the matches of a sentinel
\* are the places of its token; a MarkerBlock holds character offsets.

MARKER_START == "<!-- vrdx start -->"

MARKER_END == "<!-- vrdx end -->"

CR == "\r"

MissingMarkerError == "MissingMarkerError"

DuplicateMarkerError == "DuplicateMarkerError"

MarkerOrderError == "MarkerOrderError"

MarkerError == "MarkerError"

\* len() of a token
width(token) ==
    CASE token = MARKER_START -> 19
      [] token = MARKER_END -> 17
      [] OTHER -> 1

\* the character offset at which the token of index k starts; with
\* k = Len(text) + 1 it is len(text)
RECURSIVE offset(_, _)
offset(text, k) ==
    IF k <= 1 THEN 0 ELSE offset(text, k - 1) + width(text[k - 1])

\* list(pattern.finditer(text)): the indices of the matches, left to right
finditer(marker, text) ==
    LET hits == {k \in 1..Len(text) : text[k] = marker}
    IN  [n \in 1..Cardinality(hits) |->
            CHOOSE k \in hits : Cardinality({j \in hits : j < k}) = n - 1]

MarkerBlock(start_index, content_start, content_end, end_index) ==
    [start_index |-> start_index,
     content_start |-> content_start,
     content_end |-> content_end,
     end_index |-> end_index]

\* MarkerBlock.body: text[content_start:content_end], for offsets that lie
\* between tokens
marker_body(block, text) ==
    LET inside == {k \in 1..Len(text) :
                      /\ offset(text, k) >= block.content_start
                      /\ offset(text, k + 1) <= block.content_end}
    IN  IF inside = {}
        THEN <<>>
        ELSE SubSeq(text, SetMin(inside), SetMin(inside) + Cardinality(inside) - 1)

\* text[:stop] and text[start:], for offsets that lie between tokens
slice_to(text, stop) ==
    SubSeq(text, 1, Cardinality({k \in 1..Len(text) : offset(text, k + 1) <= stop}))

slice_from(text, start) ==
    SubSeq(text,
           Len(text) - Cardinality({k \in 1..Len(text) : offset(text, k) >= start}) + 1,
           Len(text))

\* a replace_body that goes on behind the closing sentinel
replace_body_behind_end(block, text, new_body) ==
    slice_to(text, block.content_start) \o new_body
    \o slice_from(text, block.end_index)

\* MarkerBlock.replace_body
replace_body(block, text, new_body) ==
    slice_to(text, block.content_start) \o new_body
    \o slice_from(text, block.content_end)

Detected(err, block) == [err |-> err, block |-> block]

\* a detect_marker_block that takes the first opening and the first closing
\* sentinel whatever their number
detect_marker_block_first_pair(text) ==
    \* the first of each kind
    LET start_matches == finditer(MARKER_START, text)
        end_matches == finditer(MARKER_END, text)
    IN  IF start_matches = <<>> /\ end_matches = <<>>
        THEN Detected("ok", None)
        ELSE IF start_matches = <<>> \/ end_matches = <<>>
        THEN Detected(MissingMarkerError, None)
        ELSE IF start_matches[1] > end_matches[1]
        THEN Detected(MarkerOrderError, None)
        ELSE Detected("ok",
                      Some(MarkerBlock(offset(text, start_matches[1]),
                                       offset(text, start_matches[1] + 1),
                                       offset(text, end_matches[1]),
                                       offset(text, end_matches[1] + 1))))

detect_marker_block(text) ==
    \* the checks in the order of the code
    LET start_matches == finditer(MARKER_START, text)
        end_matches == finditer(MARKER_END, text)
    IN  IF start_matches = <<>> /\ end_matches = <<>>
        THEN Detected("ok", None)
        ELSE IF start_matches = <<>> \/ end_matches = <<>>
        THEN Detected(MissingMarkerError, None)
        ELSE IF Len(start_matches) > 1 \/ Len(end_matches) > 1
        THEN Detected(DuplicateMarkerError, None)
        ELSE IF start_matches[1] > end_matches[1]
        THEN Detected(MarkerOrderError, None)
        ELSE Detected("ok",
                      Some(MarkerBlock(offset(text, start_matches[1]),
                                       offset(text, start_matches[1] + 1),
                                       offset(text, end_matches[1]),
                                       offset(text, end_matches[1] + 1))))

\* a detect_preferred_newline that does not look at the text
detect_preferred_newline_default(text) == <<NL>>

\* the loop stops at the first "\n" or "\r"
detect_preferred_newline(text) ==
    LET breaks == {idx \in 1..Len(text) : text[idx] \in {NL, CR}}
    IN  IF breaks = {}
        THEN <<NL>>
        ELSE \* idx: the first of them
             LET idx == SetMin(breaks)
             IN  IF text[idx] = NL
                 THEN IF idx > 1 /\ text[idx - 1] = CR THEN <<CR, NL>> ELSE <<NL>>
                 ELSE IF idx + 1 <= Len(text) /\ text[idx + 1] = NL
                      THEN <<CR, NL>>
                      ELSE <<CR>>

build_marker_scaffold(newline) ==
    <<MARKER_START>> \o newline \o newline \o <<MARKER_END>> \o newline

\* str.endswith
endswith(text, suffix) ==
    /\ Len(text) >= Len(suffix)
    /\ SubSeq(text, Len(text) - Len(suffix) + 1, Len(text)) = suffix

Ensured(err, text, block, inserted) ==
    [err |-> err, text |-> text, block |-> block, inserted |-> inserted]


\* the text ensure_marker_block appends the scaffold to: a trailing line
\* terminator is replaced by the newline chosen, a text without one gets it,
\* the empty text stays empty
terminated(text, newline_to_use) ==
    IF text = <<>>
    THEN text
    ELSE LET trailing == IF endswith(text, <<CR, NL>>) THEN <<CR, NL>>
                         ELSE IF endswith(text, <<NL>>) THEN <<NL>>
                         ELSE IF endswith(text, <<CR>>) THEN <<CR>>
                         ELSE <<>>
         IN  IF trailing # <<>>
             THEN IF trailing # newline_to_use
                  THEN SubSeq(text, 1, Len(text) - Len(trailing)) \o newline_to_use
                  ELSE text
             ELSE text \o newline_to_use

\* an ensure_marker_block that reports an insertion also for a block it
\* found
ensure_marker_block_always_inserted(text, newline) ==
    LET found == detect_marker_block(text)
        newline_to_use == IF IsNone(newline) \/ Value(newline) = <<>>
                          THEN detect_preferred_newline(text)
                          ELSE Value(newline)
        updated == terminated(text, newline_to_use)
                   \o build_marker_scaffold(newline_to_use)
        block == detect_marker_block(updated)
    IN  IF found.err # "ok"
        THEN Ensured(found.err, text, None, FALSE)
        ELSE IF ~IsNone(found.block)
        THEN Ensured("ok", text, found.block, TRUE)
        ELSE IF block.err # "ok"
        THEN Ensured(block.err, text, None, FALSE)
        ELSE IF IsNone(block.block)
        THEN Ensured(MarkerError, text, None, FALSE)
        ELSE Ensured("ok", updated, block.block, TRUE)

\* ensure_marker_block(text, newline=newline): newline is None or a string;
\* an error raised leaves nothing returned, shown as the text given, no
\* block and no insertion
ensure_marker_block(text, newline) ==
    LET found == detect_marker_block(text)
        newline_to_use == IF IsNone(newline) \/ Value(newline) = <<>>
                          THEN detect_preferred_newline(text)
                          ELSE Value(newline)
        updated == terminated(text, newline_to_use)
                   \o build_marker_scaffold(newline_to_use)
        block == detect_marker_block(updated)
    IN  IF found.err # "ok"
        THEN Ensured(found.err, text, None, FALSE)
        ELSE IF ~IsNone(found.block)
        THEN Ensured("ok", text, found.block, FALSE)
        ELSE IF block.err # "ok"
        THEN Ensured(block.err, text, None, FALSE)
        ELSE IF IsNone(block.block)
        THEN Ensured(MarkerError, text, None, FALSE)
        ELSE Ensured("ok", updated, block.block, TRUE)

---------------------------------------------------------------------------
\* vrdx/app/persistence.py.  The variable document is the content of the
\* file on disk.

\* Path.read_text: the text mode of open() turns "\r\n" and "\r" into "\n"
RECURSIVE read_markdown(_)
read_markdown(content) ==
    IF content = <<>>
    THEN <<>>
    ELSE IF Head(content) = CR
    THEN IF Len(content) >= 2 /\ content[2] = NL
         THEN read_markdown(Tail(content))
         ELSE <<NL>> \o read_markdown(Tail(content))
    ELSE <<Head(content)>> \o read_markdown(Tail(content))

\* Path.write_text: the text mode of open() writes "\n" as os.linesep,
\* which is "\n" where the program runs
write_markdown(content) == content

InFile(err, content, block, inserted) ==
    [err |-> err, document |-> content, block |-> block, inserted |-> inserted]

\* an ensure_marker_block_in_file that writes the text back whether or not
\* a block was inserted
ensure_marker_block_in_file_always_writing(content, newline) ==
    LET written(ensured) ==
            IF ensured.err # "ok"
            THEN InFile(ensured.err, content, None, FALSE)
            ELSE InFile("ok", write_markdown(ensured.text), ensured.block,
                        ensured.inserted)
    IN  CHOOSE result \in
            {written(ensured) :
                 ensured \in {ensure_marker_block(read_markdown(content), newline)}} :
            TRUE

\* ensure_marker_block_in_file(path, newline=newline): content is what the
\* file holds before the call, the document field what it holds after it
ensure_marker_block_in_file(content, newline) ==
    LET written(ensured) ==
            IF ensured.err # "ok"
            THEN InFile(ensured.err, content, None, FALSE)
            ELSE IF ensured.inserted
            THEN InFile("ok", write_markdown(ensured.text), ensured.block, TRUE)
            ELSE InFile("ok", content, ensured.block, FALSE)
    IN  CHOOSE result \in
            {written(ensured) :
                 ensured \in {ensure_marker_block(read_markdown(content), newline)}} :
            TRUE

---------------------------------------------------------------------------
\* The file on disk: edited from outside one token at a time, emptied, and
\* given its marker block by ensure_marker_block_in_file.

MaxDocument == 4

DocumentTokens == {MARKER_START, MARKER_END, NL, CR, "x"}

\* the newline argument: not given, or one of the newline sequences
NewlineInputs == {None, Some(<<NL>>), Some(<<CR, NL>>), Some(<<CR>>)}

TypeToken ==
    \E token \in DocumentTokens :
        /\ Len(document) < MaxDocument
        /\ document' = Append(document, token)
        /\ UNCHANGED <<app_state, body>>

EmptyDocument ==
    /\ document' = <<>>
    /\ UNCHANGED <<app_state, body>>

EnsureMarkerBlockInFile ==
    \E newline \in NewlineInputs :
        \E result \in {ensure_marker_block_in_file(document, newline)} :
            /\ document' = result.document
            /\ UNCHANGED <<app_state, body>>

MarkerNext ==
    \/ TypeToken
    \/ EmptyDocument
    \/ EnsureMarkerBlockInFile

MarkerSpec == Init /\ [][MarkerNext]_vars


\* the places of a sentinel in a text
Places(marker, text) == {k \in 1..Len(text) : text[k] = marker}

MarkerErrors == {MissingMarkerError, DuplicateMarkerError, MarkerOrderError}

\* the texts the claims about markers are stated of: the document on disk
\* and the text read from it
Texts == {document, read_markdown(document)}

\* C16: for every document text, detect_marker_block returns 'absent'
\* exactly when neither sentinel occurs, returns a span exactly when the
\* opening and the closing sentinel each occur exactly once with the opening
\* first, and raises a marker error in every other case; every returned span
\* satisfies start_index <= content_start <= content_end <= end_index, with
\* content_start immediately after the opening sentinel and content_end at
\* the start of the closing sentinel.
C16_DetectCases ==
    \A text \in Texts :
        \A detected \in {detect_marker_block(text)},
           starts \in {Places(MARKER_START, text)},
           ends \in {Places(MARKER_END, text)} :
            /\ (detected.err = "ok" /\ IsNone(detected.block))
                   <=> (starts = {} /\ ends = {})
            /\ (detected.err = "ok" /\ ~IsNone(detected.block))
                   <=> /\ Cardinality(starts) = 1
                       /\ Cardinality(ends) = 1
                       /\ \A k \in starts, j \in ends : k < j
            /\ detected.err # "ok" =>
                   detected.err \in MarkerErrors /\ IsNone(detected.block)
            /\ ~IsNone(detected.block) =>
                   \A block \in {Value(detected.block)}, k \in starts, j \in ends :
                       /\ block.start_index <= block.content_start
                       /\ block.content_start <= block.content_end
                       /\ block.content_end <= block.end_index
                       /\ block.start_index = offset(text, k)
                       /\ block.content_start = block.start_index + width(MARKER_START)
                       /\ block.content_end = offset(text, j)
                       /\ block.end_index = block.content_end + width(MARKER_END)
                       /\ marker_body(block, text) = SubSeq(text, k + 1, j - 1)

\* C16 witness: a document with text before, between and behind its two
\* sentinels, for which a span is returned
C16_Witness ==
    /\ Len(document) = 4
    /\ document[2] = MARKER_START
    /\ document[4] = MARKER_END
    /\ ~IsNone(detect_marker_block(document).block)
    /\ Value(detect_marker_block(document).block).start_index = 1
    /\ Value(detect_marker_block(document).block).content_end = 21

\* C17: detect_marker_block raises the distinct error for each malformed
\* shape: DuplicateMarkerError for every text in which either sentinel
\* occurs more than once (a text with two opening sentinels and no closing
\* one included), MissingMarkerError when only one sentinel is present, and
\* MarkerOrderError when the closing sentinel precedes the opening one.
C17_DistinctMarkerErrors ==
    \A text \in Texts :
        \A detected \in {detect_marker_block(text)},
           starts \in {Places(MARKER_START, text)},
           ends \in {Places(MARKER_END, text)} :
            /\ (Cardinality(starts) > 1 \/ Cardinality(ends) > 1)
                   => detected.err = DuplicateMarkerError
            /\ Cardinality(starts) + Cardinality(ends) = 1
                   => detected.err = MissingMarkerError
            /\ (/\ Cardinality(starts) = 1
                /\ Cardinality(ends) = 1
                /\ \A k \in starts, j \in ends : j < k)
                   => detected.err = MarkerOrderError


\* C18: ensure_marker_block is idempotent: for every text on which ensure
\* succeeds with result (t1, span1, inserted), applying ensure to t1 returns
\* t1 unchanged, a span equal to span1, and inserted = false; and when the
\* input already contains a valid block, the first call already returns the
\* text unchanged with inserted = false.
C18_EnsureIdempotent ==
    \A text \in Texts, newline \in NewlineInputs :
        \A first \in {ensure_marker_block(text, newline)},
           detected \in {detect_marker_block(text)} :
            /\ first.err = "ok" =>
                   \A again \in NewlineInputs :
                       \A second \in {ensure_marker_block(first.text, again)} :
                           /\ second.err = "ok"
                           /\ second.text = first.text
                           /\ second.block = first.block
                           /\ ~second.inserted
            /\ (detected.err = "ok" /\ ~IsNone(detected.block)) =>
                   /\ first.err = "ok"
                   /\ first.text = text
                   /\ first.block = detected.block
                   /\ ~first.inserted

\* C18 witness: the file was given its block by ensure_marker_block_in_file
\* (text, the scaffold in its line terminator behind it), and a second
\* ensure finds that block
C18_Witness ==
    /\ document = <<"x", CR, NL, MARKER_START, CR, NL, CR, NL, MARKER_END, CR, NL>>
    /\ ensure_marker_block(document, None).err = "ok"
    /\ ~ensure_marker_block(document, None).inserted
    /\ ensure_marker_block(document, None).text = document

\* C19: ensure never repairs malformed input: for every text on which
\* detect_marker_block raises a marker error, ensure_marker_block raises the
\* same kind of error and inserts nothing, and ensure_marker_block_in_file
\* leaves the file on disk unchanged; the file is written only when a block
\* was actually inserted.
C19_EnsureNeverRepairs ==
    \A newline \in NewlineInputs :
        /\ \A text \in Texts :
               \A detected \in {detect_marker_block(text)},
                  ensured \in {ensure_marker_block(text, newline)} :
                   detected.err # "ok" =>
                       /\ ensured.err = detected.err
                       /\ ensured.text = text
                       /\ ~ensured.inserted
                       /\ IsNone(ensured.block)
        /\ \A detected \in {detect_marker_block(document)},
              in_file \in {ensure_marker_block_in_file(document, newline)} :
               /\ detected.err # "ok" =>
                      /\ in_file.err = detected.err
                      /\ in_file.document = document
               /\ ~in_file.inserted => in_file.document = document
               /\ in_file.inserted =>
                      /\ detected.err = "ok"
                      /\ IsNone(detected.block)
                      /\ ~IsNone(detect_marker_block(in_file.document).block)

\* C19 witness: a file with a line ended by "\r\n" and a single opening
\* sentinel, on which ensure_marker_block_in_file raises
C19_Witness ==
    /\ document = <<"x", CR, NL, MARKER_START>>
    /\ ensure_marker_block_in_file(document, None).err = MissingMarkerError
    /\ ensure_marker_block_in_file(document, None).document = document
    /\ read_markdown(document) # document


\* the first line terminator of a text, "\n" for a text without one
FirstTerminator(text) ==
    LET breaks == Places(NL, text) \cup Places(CR, text)
    IN  IF breaks = {}
        THEN <<NL>>
        ELSE IF text[SetMin(breaks)] = NL
        THEN <<NL>>
        ELSE IF SetMin(breaks) < Len(text) /\ text[SetMin(breaks) + 1] = NL
        THEN <<CR, NL>>
        ELSE <<CR>>

\* a text without its single trailing line terminator
Content(text) ==
    IF endswith(text, <<CR, NL>>)
    THEN SubSeq(text, 1, Len(text) - 2)
    ELSE IF endswith(text, <<NL>>) \/ endswith(text, <<CR>>)
    THEN SubSeq(text, 1, Len(text) - 1)
    ELSE text

\* C20: when the text contains no sentinel, ensure_marker_block returns
\* inserted = true and a text equal to the original content (its single
\* trailing line terminator, if any, replaced by the chosen newline, or the
\* chosen newline appended when a non-empty text lacks one; nothing
\* prepended for an empty text) followed by opening sentinel, newline,
\* newline, closing sentinel, newline; the chosen newline is the override if
\* given, else the first line terminator found in the text, else "\n"; the
\* returned span's body is whitespace only and no other character of the
\* original text is changed.
C20_EnsureInsertsScaffold ==
    \A text \in Texts, newline \in NewlineInputs :
        (Places(MARKER_START, text) = {} /\ Places(MARKER_END, text) = {}) =>
            \A ensured \in {ensure_marker_block(text, newline)},
               chosen \in {IF IsNone(newline)
                           THEN FirstTerminator(text)
                           ELSE Value(newline)} :
                /\ ensured.err = "ok"
                /\ ensured.inserted
                /\ ensured.text
                   = (IF text = <<>> THEN <<>> ELSE Content(text) \o chosen)
                     \o <<MARKER_START>> \o chosen \o chosen
                     \o <<MARKER_END>> \o chosen
                /\ SubSeq(ensured.text, 1, Len(Content(text))) = Content(text)
                /\ ensured.block = detect_marker_block(ensured.text).block
                /\ ~IsNone(ensured.block)
                /\ \A kept \in {marker_body(Value(ensured.block), ensured.text)} :
                       /\ kept = chosen \o chosen
                       /\ \A k \in 1..Len(kept) : kept[k] \in {NL, CR, " "}

\* C20 witness: the file read had no sentinel and a last line without a
\* terminator behind a line ended by "\r"; ensure_marker_block_in_file wrote
\* it back with the scaffold in that terminator
C20_Witness ==
    /\ Len(document) > MaxDocument
    /\ SubSeq(document, 1, 3) = <<"x", NL, "x">>
    /\ \E original \in {<<"x", CR, "x">>} :
           /\ read_markdown(original) = <<"x", NL, "x">>
           /\ document = ensure_marker_block(read_markdown(original), None).text
           /\ ensure_marker_block(read_markdown(original), None).inserted


\* bodies given to replace_body: empty, a line, lines with both line
\* terminators, a sentinel
NewBodies ==
    {<<>>, <<"x", NL>>, <<NL, "x", CR, NL, "x">>, <<MARKER_END>>}

\* C21: replacing a block body preserves everything outside the block: for
\* every text with a valid span and every new_body, replace_body returns
\* text[:content_start] + new_body + text[content_end:], so the characters
\* before and including the opening sentinel and from the closing sentinel
\* to the end of the document are identical to the original.
C21_ReplaceBodyFrame ==
    \A text \in Texts, new_body \in NewBodies :
        \A detected \in {detect_marker_block(text)} :
            (detected.err = "ok" /\ ~IsNone(detected.block)) =>
                \A replaced \in {replace_body(Value(detected.block), text, new_body)},
                   k \in Places(MARKER_START, text),
                   j \in Places(MARKER_END, text) :
                    /\ replaced = SubSeq(text, 1, k) \o new_body
                                  \o SubSeq(text, j, Len(text))
                    /\ SubSeq(replaced, 1, k) = SubSeq(text, 1, k)
                    /\ replaced[k] = MARKER_START
                    /\ SubSeq(replaced, k + Len(new_body) + 1, Len(replaced))
                       = SubSeq(text, j, Len(text))
                    /\ Len(replaced) = Len(text) - (j - k - 1) + Len(new_body)

\* C21 witness: the file holds a line, the block with two line ends in it,
\* and a line end behind it, and a body of one line replaces the two line
\* ends
C21_Witness ==
    /\ document = <<"x", NL, MARKER_START, NL, NL, MARKER_END, NL>>
    /\ replace_body(Value(detect_marker_block(document).block), document,
                    <<"x", NL>>)
       = <<"x", NL, MARKER_START, "x", NL, MARKER_END, NL>>


---------------------------------------------------------------------------
\* The codec on records.  Here body is the sequence of records a caller
\* holds; they are rendered into document, and document is parsed into the
\* file of app_state.

\* FileState.serialize_body
serialize_body(file_state) == render_decisions(decision_records(file_state))

MaxRecords == 2

\* records whose title and fields are non-empty trimmed text; a decision of
\* one line, of two lines, of two lines with an empty line between them, and
\* consequences of one or two lines
CodecRecords ==
    {DecisionRecord(id, <<"t">>, DEFAULT_STATUS, decision, <<"c">>,
                    consequences, <<>>) :
         id \in 0..MaxId,
         decision \in {<<"d">>, <<"d", NL, "e">>, <<"d", NL, NL, "e">>},
         consequences \in {<<"q">>, <<"q", " ", "r", NL, "s">>}}

CodecAppend ==
    \E record \in CodecRecords :
        /\ Len(body) < MaxRecords
        /\ body' = Append(body, record)
        /\ document' = <<>>
        /\ app_state' = NewAppState

CodecClear ==
    /\ body' = <<>>
    /\ document' = <<>>
    /\ app_state' = NewAppState

\* render_decisions(records) written, and read again with parse_body
CodecRenderAndParse ==
    \E rendered \in {render_decisions(body)} :
        \E parsed \in {parse_body(FileState("a.md", <<>>), rendered)} :
            /\ document' = rendered
            /\ app_state' = IF parsed.err = "ok"
                            THEN load_files(app_state, <<parsed.file>>).app
                            ELSE app_state
            /\ UNCHANGED body

CodecNext ==
    \/ CodecAppend
    \/ CodecClear
    \/ CodecRenderAndParse

CodecSpec == Init /\ [][CodecNext]_vars

\* the fields of a record other than raw
Fields(record) ==
    <<record.id, record.title, record.status, record.decision, record.context,
      record.consequences>>

\* C22: codec round-trip: for every sequence of records whose title and four
\* canonical fields are non-empty trimmed text (decision, context and
\* consequences may contain embedded line breaks),
\* parse_decisions(render_decisions(records)) returns a sequence of the same
\* length whose records equal the originals in id, title, status, decision,
\* context and consequences (raw ignored).
C22_CodecRoundTrip ==
    \A parsed \in {parse_decisions(render_decisions(body))} :
        /\ parsed.err = "ok"
        /\ Len(parsed.records) = Len(body)
        /\ \A k \in 1..Len(body) : Fields(parsed.records[k]) = Fields(body[k])


\* a section has a value for a label when one of its field lines bears the
\* label and text follows it, on the line or on the lines up to the next
\* field line or heading
HasValue(lines, label) ==
    \E idx \in 1..Len(lines) :
        /\ field_match(lines[idx])
        /\ field_label(lines[idx]) = label
        /\ \/ field_value(lines[idx]) # <<>>
           \/ \E x \in (idx + 1)..(continuation_end(lines, idx + 1) - 1) :
                  strip(lines[x]) # <<>>

\* the labels a section lacks or has an empty value for
Lacking(section) ==
    {label \in {CANONICAL_FIELDS[i] : i \in 1..Len(CANONICAL_FIELDS)} :
        ~HasValue(Tail(splitlines(section)), label)}

HeadingFails(section) == heading_match_end(splitlines(section)[1], 1) = 0

\* C23: missing-field detection: for every body whose first defective
\* section lacks, or has an empty value for, a non-empty subset M of the
\* labels Status, Decision, Context, Consequences, parse_decisions raises
\* DecisionParseError naming exactly the labels in M (no others) and returns
\* no records; a section with all four fields non-empty never raises this
\* error.
C23_MissingFieldsNamed ==
    \A sections \in {_iter_decision_sections(body_text)},
       error \in {parse_error(body_text)} :
        \A lacking \in {[k \in 1..Len(sections) |-> Lacking(sections[k])]},
           fails \in {[k \in 1..Len(sections) |-> HeadingFails(sections[k])]} :
            /\ \A k \in 1..Len(sections) :
                   (/\ \A j \in 1..(k - 1) : ~fails[j] /\ lacking[j] = {}
                    /\ ~fails[k]
                    /\ lacking[k] # {})
                       => /\ ~IsNone(error)
                          /\ Value(error).kind = "is missing fields"
                          /\ {Value(error).fields[n] :
                                  n \in 1..Len(Value(error).fields)} = lacking[k]
                          /\ parse_decisions(body_text)
                             = [err |-> DecisionParseError, records |-> <<>>]
            /\ \A k \in 1..Len(sections) :
                   lacking[k] = {} =>
                       \A raised \in {section_error(sections[k])} :
                           IsNone(raised) \/ Value(raised).kind # "is missing fields"

\* C23 witness: a file is loaded, and the body is a valid section followed
\* by a section with an empty Decision and without Context, which the error
\* names
C23_Witness ==
    /\ ~IsNone(current_file(app_state))
    /\ Len(_iter_decision_sections(body_text)) = 2
    /\ Lacking(_iter_decision_sections(body_text)[1]) = {}
    /\ Lacking(_iter_decision_sections(body_text)[2]) = {"Decision", "Context"}
    /\ Value(parse_error(body_text)).fields = <<"Decision", "Context">>


\* the lines of a text that match HEADING_PATTERN, in their order
HeadingLines(text) ==
    SelectSeq(splitlines(text), LAMBDA line : heading_match_end(line, 1) > 0)

\* C24: order preservation: for every body that parses successfully,
\* parse_decisions returns one record per heading line, in the order the
\* headings appear in the text, never re-sorted by id (a body listing a
\* higher id before a lower one yields them in that order).
C24_OnePerHeadingInOrder ==
    \A parsed \in {parse_decisions(body_text)},
       headings \in {HeadingLines(body_text)} :
        parsed.err = "ok" =>
            /\ Len(parsed.records) = Len(headings)
            /\ \A k \in 1..Len(headings) :
                   /\ parsed.records[k].id = heading_id(headings[k])
                   /\ parsed.records[k].title = strip(heading_title(headings[k]))


\* the ids of a list of decisions, in its order
IdSeq(decisions) == [k \in 1..Len(decisions) |-> decisions[k].record.id]

Distinct(ids) == \A i \in 1..Len(ids), j \in 1..Len(ids) : ids[i] = ids[j] => i = j

\* C25: id uniqueness is preserved: if the ids in the active file are
\* pairwise distinct, they remain pairwise distinct after create, update,
\* move, delete, link and unlink, because create always picks an id not
\* currently in the file and no other command changes an id.
C25_IdsStayDistinct ==
    ActiveFile =>
        \A ids \in {IdSeq(Decisions(app_state))} :
            LET After(r) == IdSeq(Decisions(r.app))
                Keeps(r) == /\ Distinct(ids) => Distinct(After(r))
                            /\ \A id \in IdInputs :
                                   occurrences(After(r), id) = occurrences(ids, id)
            IN  /\ \A fields \in CreateInputs :
                       \A r \in {create_with(app_state, fields)} :
                           /\ Distinct(ids) => Distinct(After(r))
                           /\ occurrences(ids, After(r)[1]) = 0
                           /\ Tail(After(r)) = ids
                /\ \A id \in IdInputs, fields \in UpdateInputs :
                       Keeps(update_with(app_state, id, fields))
                /\ \A from_index \in IndexInputs, to_index \in IndexInputs :
                       Keeps(move_decision(app_state, from_index, to_index))
                /\ \A args \in LinkInputs :
                       /\ Keeps(link_decisions(app_state, args[1], args[2], args[3]))
                       /\ Keeps(unlink_decisions(app_state, args[1], args[2], args[3]))
                /\ \A id \in IdInputs :
                       \A r \in {delete_decision(app_state, id)} :
                           /\ Distinct(ids) => Distinct(After(r))
                           /\ \A other \in IdInputs :
                                  occurrences(After(r), other)
                                  <= occurrences(ids, other)

\* C25 witness: a file whose higher id was deleted or moved behind, with
\* unsaved edits and distinct ids, in which create picks a new id
C25_Witness ==
    /\ ActiveFile
    /\ app_state.is_modified
    /\ IdSeq(Decisions(app_state)) \in {<<1>>, <<0, 1>>}
    /\ IdSeq(Decisions(create_with(app_state, <<<<"v">>, None>>).app))
       \in {<<2, 1>>, <<2, 0, 1>>}


\* C26: a newly created decision starts unlinked: in every state reached by
\* create, delete, link and unlink commands, immediately after a successful
\* create the new decision has an empty link list and no decision in the
\* file holds a link whose target id equals the new decision's id.
C26_CreatedStartsUnlinked ==
    ActiveFile =>
        \A fields \in CreateInputs :
            \A r \in {create_with(app_state, fields)} :
                /\ r.err = Ok
                /\ Decisions(r.app)[1] = Value(r.ret)
                /\ Value(r.ret).links = <<>>
                /\ \A k \in 1..Len(Decisions(r.app)) :
                       \A n \in 1..Len(Decisions(r.app)[k].links) :
                           Decisions(r.app)[k].links[n].target_id
                           # Value(r.ret).record.id


\* the active file written out and read back by refresh_file_from_body
Reloaded(a) ==
    refresh_file_from_body(a, Value(current_file(a)).path,
                           serialize_body(Value(current_file(a))), TRUE, FALSE)

NonIncreasing(ids) == \A k \in 1..(Len(ids) - 1) : ids[k] >= ids[k + 1]

SameIds(ids, others) ==
    /\ Len(ids) = Len(others)
    /\ \A id \in IdInputs :
           Cardinality({k \in 1..Len(ids) : ids[k] = id})
               = Cardinality({k \in 1..Len(others) : others[k] = id})

AfterCreate(a) == {a} \cup {create_with(a, fields).app : fields \in CreateInputs}

Edited(a) ==
    {create_with(a, fields).app : fields \in CreateInputs}
        \cup {r.app : r \in {u \in {update_with(a, id, fields) :
                                        id \in IdInputs, fields \in UpdateInputs} :
                                 u.err = Ok}}

\* C28: every command-reachable file serializes to a parseable body: after
\* a successful create_decision or update_decision with any text arguments
\* (empty and whitespace-only ones included), parse_decisions on the
\* serialized body of the active file succeeds and returns records with the
\* same ids, titles and field values in the same order.
C28_CommandsKeepBodyParseable ==
    ActiveFile =>
        \A a \in Edited(app_state) :
            \A parsed \in {parse_decisions(serialize_body(Value(current_file(a))))} :
                /\ parsed.err = "ok"
                /\ [k \in 1..Len(parsed.records) |-> Fields(parsed.records[k])]
                   = [k \in 1..Len(Decisions(a)) |-> Fields(Decisions(a)[k].record)]


---------------------------------------------------------------------------
\* vrdx/ui/app.py: saving the active file.  Here document is the file of the
\* active FileState on disk and app_state the aggregate being edited.

Persisted(a, err, content) == [app |-> a, err |-> err, document |-> content]

\* the body spliced in: the serialized decisions, ended by a newline when
\* there are any
persisted_body(file_state) ==
    LET serialized == serialize_body(file_state)
    IN  IF serialized # <<>> /\ ~endswith(serialized, <<NL>>)
        THEN serialized \o <<NL>>
        ELSE serialized

\* VrdxApp._persist_current_file(): content is what the file holds before
\* the call (a file that does not exist reads as the empty text), the
\* document field what it holds after it; a marker error propagates
_persist_current_file(a, content) ==
    LET written(ensured) ==
            IF ensured.err # "ok"
            THEN Persisted(a, ensured.err, content)
            ELSE Persisted(mark_saved(a), Ok,
                           write_markdown(
                               replace_body(Value(ensured.block), ensured.text,
                                            persisted_body(Value(current_file(a))))))
    IN  IF IsNone(current_file(a))
        THEN Persisted(a, Ok, content)
        ELSE CHOOSE result \in
                 {written(ensured) :
                      ensured \in {ensure_marker_block(read_markdown(content), None)}} :
                 TRUE

\* the files loaded before a save
SavedFiles == {sample_file("a.md", <<>>), sample_file("a.md", <<0>>)}

\* the consequences the user types: plain text, and text that quotes a
\* sentinel
SavedTexts == {<<"v">>, <<"v", " ", MARKER_END>>}

SaveLoad ==
    \E f \in SavedFiles :
        /\ app_state' = load_files(app_state, <<f>>).app
        /\ UNCHANGED text_vars

\* the list grows without bound under create: the guard stops at MaxSaved
\* decisions
MaxSaved == 2

SaveCreate ==
    \E text \in SavedTexts :
        /\ CanCreate
        /\ ActiveFile => Len(Decisions(app_state)) < MaxSaved
        /\ app_state' = create_decision(app_state, <<"t">>, <<"d">>, <<"c">>, text,
                                        None).app
        /\ UNCHANGED text_vars

SaveUpdate ==
    \E id \in IdInputs, text \in SavedTexts :
        /\ app_state' = update_decision(app_state, id, None, None, None, None,
                                        Some(text)).app
        /\ UNCHANGED text_vars

PersistCurrentFile ==
    \E saved \in {_persist_current_file(app_state, document)} :
        /\ app_state' = saved.app
        /\ document' = saved.document
        /\ UNCHANGED body

SaveNext ==
    \/ TypeToken
    \/ EmptyDocument
    \/ SaveLoad
    \/ SaveCreate
    \/ SaveUpdate
    \/ PersistCurrentFile

SaveSpec == Init /\ [][SaveNext]_vars

\* C29: saving keeps the document well-formed: for every document with a
\* valid marker block and every decision list the commands reach, the text
\* written by the save holds exactly one opening and one closing sentinel,
\* and detect_marker_block on it returns a block whose body is the
\* serialized decisions.
C29_SaveKeepsDocumentWellFormed ==
    ActiveFile =>
        \A found \in {detect_marker_block(read_markdown(document))} :
            (found.err = "ok" /\ ~IsNone(found.block)) =>
                \A saved \in {_persist_current_file(app_state, document)} :
                    /\ saved.err = Ok
                    /\ occurrences(saved.document, MARKER_START) = 1
                    /\ occurrences(saved.document, MARKER_END) = 1
                    /\ \A again \in {detect_marker_block(saved.document)} :
                           /\ again.err = "ok"
                           /\ ~IsNone(again.block)
                           /\ marker_body(Value(again.block), saved.document)
                              = persisted_body(Value(current_file(app_state)))


---------------------------------------------------------------------------
\* The modified flag

\* the aggregates a successful edit of the active file leaves: create,
\* update, move, delete, link, and unlink between two decisions of the file
AfterEdit(a) ==
    {create_with(a, fields).app : fields \in CreateInputs}
        \cup {r.app : r \in {u \in
                  {update_with(a, id, fields) :
                       id \in IdInputs, fields \in UpdateInputs}
                  \cup {move_decision(a, from_index, to_index) :
                            from_index \in IndexInputs, to_index \in IndexInputs}
                  \cup {delete_decision(a, id) : id \in IdInputs}
                  \cup {link_decisions(a, args[1], args[2], args[3]) :
                            args \in LinkInputs}
                  \cup {unlink_decisions(a, args[1], args[2], args[3]) :
                            args \in {l \in LinkInputs :
                                          {l[1], l[2]} \subseteq Ids(Decisions(a))}} :
                  u.err = Ok}}

\* the aggregates navigation leaves, whether or not the call raises
AfterNavigation(a) ==
    {select_file(a, index).app : index \in (-1)..Cardinality(Paths)}
        \cup {select_decision(a, index).app : index \in IndexInputs}
        \cup {focus_next_decision(a).app, focus_previous_decision(a).app}

\* the aggregates append_file_state leaves for a file not loaded yet
AfterAppend(a) ==
    {append_file_state(a, f).app :
         f \in {g \in SampleFiles \cup {sample_file("b.md", <<0>>)} :
                    \A i \in 1..Len(a.files) : a.files[i].path # g.path}}

\* the flag apart from append_file_state: it is false after load_files,
\* set_files and reset, true after every successful edit, and navigation
\* keeps a flag that is set.
EditsSetNavigationKeeps ==
    /\ \A files \in LoadInputs :
           /\ ~load_files(app_state, files).app.is_modified
           /\ ~set_files(app_state, files).app.is_modified
    /\ ~reset(app_state).app.is_modified
    /\ ActiveFile => \A a \in AfterEdit(app_state) : a.is_modified
    /\ app_state.is_modified =>
           \A a \in AfterNavigation(app_state) : a.is_modified

\* C30: the modified flag tracks unsaved edits: it is false after
\* load_files, set_files and reset, true after every successful create,
\* update, move, delete, link and unlink, and once true it stays true under
\* navigation and under append_file_state.
C30_ModifiedTracksEdits ==
    /\ EditsSetNavigationKeeps
    /\ app_state.is_modified =>
           \A a \in AfterAppend(app_state) : a.is_modified

=============================================================================
